---- MODULE Spec2Model ----
(***************************************************************************)
(* State-machine model of the BitNet installer (heyross/bitbet_on_win).    *)
(*                                                                         *)
(* The parts of the program are modelled over one set of variables, each   *)
(* with its own specification:                                             *)
(*   SpecServer  - the control panel's server supervisor                   *)
(*                 (control_panel_tab.py: start_bitnet_server,             *)
(*                 _start_server_thread) and the host window's on_close    *)
(*                 (installer_gui.py);                                     *)
(*   SpecPrompt  - the prompt exchange (send_prompt,                       *)
(*                 _process_prompt_thread) around one start of the server; *)
(*   SpecInstall - the installer tab's prerequisite check and installation *)
(*                 sequence (installer_gui_tabs.py: install_bitnet,        *)
(*                 _install_bitnet_thread) over installer_core.py.         *)
(* External programs (git, conda, the server binary) and the file system   *)
(* are the environment: their outputs and exit codes are drawn from small  *)
(* sets.                                                                   *)
(***************************************************************************)
EXTENDS Integers, Sequences, FiniteSets, TLC

\* ---------------------------------------------------------------- bounds
\* start_bitnet_server invocations that spawn a worker thread
MaxStarts == 2
\* prompts accepted by send_prompt
MaxPrompts == 1
\* install_bitnet invocations that spawn a worker thread
MaxRuns == 2
\* stderr lines read from one git clone subprocess
MaxCloneLines == 2
\* prerequisite installs started from the Install Git / Conda / VS buttons
MaxToolInstalls == 1
\* prerequisite check passes: the one at startup and the refreshes
MaxChecks == 2
\* bytes of the largest file a download receives
MaxBytes == 4
\* directory levels below the install directory in the trees that are walked
MaxDepth == 4

\* ------------------------------------------------------- paths and files
InstallDir == "C:/BitNet"
CondaExe == "C:/miniconda3/Scripts/conda.exe"
SetupEnvPy == "setup_env.py"
SetupWrapperPy == "setup_wrapper.py"
GgufModel == "models/model.gguf"
MainPy == "main.py"
GitDir == ".git"
StartupBat == "C:/start_bitnet.bat"
GitExe == "C:/Program Files/Git/cmd/git.exe"
BitnetCondaExe == "~/miniconda3_bitnet/Scripts/conda.exe"
VsDir == "C:/Program Files/Microsoft Visual Studio/2022"

\* the candidate server executables, in search order
ServerExecutables ==
  << "build/bin/server", "build/server", "build/bin/server.exe",
     "build/server.exe", "server/server", "server/server.exe" >>

\* the candidate server scripts, in search order
ServerScripts ==
  << "server.py", "server/server.py", "scripts/server.py", "run_server.py" >>

\* contents of the project directory in the initial file systems
ProjectLayouts ==
  { {},
    {SetupEnvPy},
    {"build/bin/server.exe", GgufModel},
    {SetupEnvPy, "build/server", "build/bin/server.exe", GgufModel},
    {"build/bin/server.exe", "scripts/server.py", "run_server.py", MainPy},
    {"server/server.exe", MainPy},
    {"build/bin/server.exe"},
    {"run_server.py", MainPy},
    {MainPy} }

\* initial file systems: nothing lives under a missing install directory
FsInit ==
  { {}, {CondaExe} }
    \cup { {InstallDir} \cup c \cup l : c \in { {}, {CondaExe} },
                                        l \in ProjectLayouts }

\* ------------------------------------------------------------- variables
VARIABLES
  config_data,     \* the shared config record (app.config_data)
  config_file,     \* the config record on disk (CONFIG_FILE)
  files,           \* paths that exist on disk
  bitnet_status,   \* ControlPanelTab.bitnet_status
  bitnet_process,  \* ControlPanelTab.bitnet_process: index into procs, 0 = None
  procs,           \* every subprocess launched so far
  srv,             \* the _start_server_thread workers started so far
  output_text,     \* the output sink: the chunk appended to it last
  input_text,      \* the prompt input widget
  prompts,         \* the _process_prompt_thread workers started so far
  dialog,          \* the message box shown most recently
  appClosed,       \* the host window has been destroyed
  git_installed,   \* InstallerTab.git_installed
  conda_installed, \* InstallerTab.conda_installed
  vs_installed,    \* InstallerTab.vs_installed
  install_btn,     \* state of the Install BitNet button
  refresh_btn,     \* state of the Refresh Prerequisites button
  progress,        \* value of the installer tab's progress bar
  chk,             \* the _check_prerequisites_thread workers started so far
  inst,            \* the _install_bitnet_thread workers started so far
  tool_btn,        \* state of the Install Git / Conda / VS Build Tools buttons
  tools,           \* the prerequisite-install workers started so far
  requirements_txt, \* content of requirements.txt in the install directory
  call             \* the library call being followed step by step, if any

serverVars ==
  << config_data, config_file, files, bitnet_status, bitnet_process, procs,
     srv, output_text, input_text, prompts, dialog, appClosed >>

\* the state of the installer tab
installVars ==
  << git_installed, conda_installed, vs_installed, install_btn, refresh_btn,
     progress, chk, inst, tool_btn, tools, requirements_txt, call >>

\* the state of the prerequisite rows of the installer tab
prereqVars ==
  << git_installed, conda_installed, vs_installed, chk, tool_btn, tools >>

\* the state of the control panel tab and of the host window
panelVars ==
  << bitnet_status, bitnet_process, procs, srv, output_text, input_text,
     prompts, appClosed >>

vars == << serverVars, installVars >>

\* ---------------------------------------------------------------- helpers
\* os.path.exists
Exists(path) == path \in files

\* first element of a candidate list that exists on disk, "None" if none does
FirstExisting(candidates) ==
  IF \E i \in 1..Len(candidates) : Exists(candidates[i])
  THEN candidates[CHOOSE i \in 1..Len(candidates) :
                    /\ Exists(candidates[i])
                    /\ \A j \in 1..(i - 1) : ~Exists(candidates[j])]
  ELSE "None"

\* update_output: insert text at the end of the output widget, whose last
\* chunk was out
UpdateOutput(out, text) == text

\* str.strip on the prompt input
Strip(s) == IF s = " " THEN "" ELSE s

\* the texts a user may type into the prompt input
InputTexts == { "", " ", "hello" }

\* status written for a return code
ExitStatus(rc) == IF rc = 0 THEN "Stopped" ELSE "Error"

\* text written to the output sink for a return code
ExitMessage(rc) ==
  IF rc = 0 THEN "BitNet server stopped gracefully."
  ELSE "BitNet server exited with error code"

\* subprocess.Popen: a new live process, launched by worker t
NewProc(t, branch) == [owner |-> t, branch |-> branch, alive |-> TRUE, rc |-> 0]

LiveProcs == { p \in 1..Len(procs) : procs[p].alive }

\* ------------------------------------------------------------------ init
\* DEFAULT_CONFIG
DefaultConfig ==
  [ install_dir |-> InstallDir, conda_path |-> "", git_path |-> "",
    vs_path |-> "", enable_gpu |-> TRUE, create_shortcut |-> TRUE,
    first_run |-> TRUE ]

\* the config records load_config may return at startup
ConfigInit ==
  { [DefaultConfig EXCEPT !.install_dir = d, !.conda_path = c] :
      d \in {"", InstallDir}, c \in {"", CondaExe} }

\* InstallerTab.__init__: the flags are False, the install button is
\* disabled, and check_prerequisites has started its first worker
InitInstallerTab ==
  /\ git_installed = FALSE
  /\ conda_installed = FALSE
  /\ vs_installed = FALSE
  /\ install_btn = "disabled"
  /\ refresh_btn = "normal"
  /\ progress = 0
  /\ chk = << "git" >>
  /\ inst = << >>
  /\ tool_btn = [git |-> "normal", conda |-> "normal", vs |-> "normal"]
  /\ tools = << >>

\* no library call is being followed
NoCall == [fn |-> "none"]

\* ControlPanelTab.__init__ and the host window
InitPanel ==
  /\ bitnet_status = "Not Running"
  /\ bitnet_process = 0
  /\ procs = << >>
  /\ srv = << >>
  /\ output_text = ""
  /\ input_text = ""
  /\ prompts = << >>
  /\ dialog = "none"
  /\ appClosed = FALSE

InitServer ==
  /\ config_data \in ConfigInit
  /\ config_file = config_data
  /\ files \in FsInit
  /\ requirements_txt = "absent"
  /\ InitInstallerTab
  /\ InitPanel
  /\ call = NoCall

\* initial file systems of the installation runs: the prerequisites that are
\* installed, the install directory before or after an earlier clone, and
\* the conda environments that exist
InstallFsInit ==
  { t \cup d \cup e :
      t \in { {GitExe, CondaExe, VsDir}, {CondaExe, VsDir} },
      d \in { {}, {InstallDir}, {InstallDir, GitDir} },
      e \in { {}, {"C:/miniconda3/envs/bitnet-cpp"},
               {"C:/miniconda3/envs/bitnet-cpp-dev"} } }

InitInstall ==
  /\ config_data \in ConfigInit
  /\ config_file = config_data
  /\ files \in InstallFsInit
  /\ requirements_txt \in
       IF InstallDir \in files THEN {"absent", "user manifest"} ELSE {"absent"}
  /\ InitInstallerTab
  /\ InitPanel
  /\ call = NoCall

Init == InitServer

\* ----------------------------------------------------- start_bitnet_server
\* the install-directory check of start_bitnet_server
InstallDirMissing ==
  config_data.install_dir = "" \/ ~Exists(config_data.install_dir)

NewWorker ==
  [pc |-> "begin", process |-> 0, reading |-> 0]

StartBitnetServer ==
  /\ ~appClosed
  /\ UNCHANGED installVars
  /\ IF InstallDirMissing
     THEN /\ dialog' = "BitNet is not installed"
          /\ UNCHANGED << config_data, config_file, files, bitnet_status,
                          bitnet_process, procs, srv, output_text,
                          input_text, prompts, appClosed >>
     ELSE /\ Len(srv) < MaxStarts
          /\ bitnet_status' = "Starting..."
          /\ srv' = Append(srv, NewWorker)
          /\ UNCHANGED << config_data, config_file, files, bitnet_process,
                          procs, output_text, input_text, prompts, dialog,
                          appClosed >>

\* ------------------------------------------------- _start_server_thread
\* the exception classes raised inside the start sequence
ExceptionKinds == { "Exception", "AttributeError", "OSError" }

\* `except Exception as e` around the whole body of _start_server_thread
HandlerCatchesOSErrorOnly(kind) == kind = "OSError"

HandlerCatches(kind) == kind \in ExceptionKinds

\* a worker that has returned (pc "done") or that an exception has left
\* (pc "escaped"): its locals are gone
Finished(pc) == [pc |-> pc, process |-> 0, reading |-> 0]

\* an exception of class kind with message msg is raised by worker t after
\* the output sink has become out: the handler logs it, appends it to the
\* output sink and sets the status; an exception the handler does not catch
\* leaves the worker
Raise(t, kind, msg, out) ==
  IF HandlerCatches(kind)
  THEN /\ output_text' = UpdateOutput(out, msg)
       /\ bitnet_status' = "Error"
       /\ srv' = [srv EXCEPT ![t] = Finished("done")]
  ELSE /\ output_text' = out
       /\ bitnet_status' = bitnet_status
       /\ srv' = [srv EXCEPT ![t] = Finished("escaped")]

\* one line of subprocess output read by a worker: it is appended to the
\* output sink, and a line with the marker sets the status
ReadLine(marker) ==
  /\ output_text' = UpdateOutput(output_text,
        IF marker THEN "Server started at" ELSE "line")
  /\ bitnet_status' = IF marker THEN "Ready" ELSE bitnet_status
  /\ UNCHANGED srv

\* lines 276-393: resolve the conda path and the install directory, then run
\* setup_env.py, if there is one, through the generated wrapper
SrvBegin(t) ==
  /\ ~appClosed
  /\ UNCHANGED installVars
  /\ srv[t].pc = "begin"
  /\ UNCHANGED << config_data, config_file, bitnet_process, input_text,
                  prompts, dialog, appClosed >>
  /\ IF config_data.conda_path = "" \/ config_data.install_dir = ""
     THEN /\ Raise(t, "Exception",
                   "Error: Missing conda path or installation directory.",
                   output_text)
          /\ UNCHANGED << files, procs >>
     ELSE IF ~Exists(config_data.conda_path)
     THEN \* core.find_conda: installer_core defines no find_conda
          /\ Raise(t, "AttributeError",
                   "Error: module 'installer_core' has no attribute 'find_conda'",
                   output_text)
          /\ UNCHANGED << files, procs >>
     ELSE IF ~Exists(SetupEnvPy)
     THEN /\ output_text' = UpdateOutput(output_text, "Starting BitNet server...")
          /\ srv' = [srv EXCEPT ![t].pc = "find_exe"]
          /\ UNCHANGED << files, bitnet_status, procs >>
     ELSE \/ \* open(setup_wrapper_path, 'w') fails
             /\ Raise(t, "OSError", "Error: cannot write setup_wrapper.py",
                      UpdateOutput(UpdateOutput(UpdateOutput(output_text,
                        "Starting BitNet server..."), "Found setup_env.py"),
                        "Using HuggingFace model"))
             /\ UNCHANGED << files, procs >>
          \/ \* subprocess.Popen fails
             /\ files' = files \cup {SetupWrapperPy}
             /\ Raise(t, "OSError", "Error: cannot start process",
                      UpdateOutput(UpdateOutput(UpdateOutput(UpdateOutput(
                        output_text,
                        "Starting BitNet server..."), "Found setup_env.py"),
                        "Using HuggingFace model"),
                        "Setting up BitNet environment"))
             /\ UNCHANGED procs
          \/ /\ files' = files \cup {SetupWrapperPy}
             /\ output_text' =
                  UpdateOutput(UpdateOutput(UpdateOutput(UpdateOutput(
                    output_text,
                    "Starting BitNet server..."), "Found setup_env.py"),
                    "Using HuggingFace model"),
                    "Setting up BitNet environment")
             /\ procs' = Append(procs, NewProc(t, "setup"))
             /\ srv' = [srv EXCEPT ![t].pc = "setup_read",
                                   ![t].process = Len(procs) + 1]
             /\ UNCHANGED bitnet_status

\* lines 396-401: one line of the setup process's output
SrvSetupReadLine(t) ==
  /\ ~appClosed
  /\ UNCHANGED installVars
  /\ srv[t].pc = "setup_read"
  /\ procs[srv[t].process].alive
  /\ \E marker \in BOOLEAN : ReadLine(marker)
  /\ UNCHANGED << config_data, config_file, files, bitnet_process, procs,
                  input_text, prompts, dialog, appClosed >>

\* lines 403-412: the setup process has exited
SrvSetupExit(t) ==
  /\ ~appClosed
  /\ UNCHANGED installVars
  /\ srv[t].pc = "setup_read"
  /\ LET p == srv[t].process IN
       /\ ~procs[p].alive
       /\ bitnet_status' = ExitStatus(procs[p].rc)
       /\ output_text' = UpdateOutput(output_text, ExitMessage(procs[p].rc))
  /\ srv' = [srv EXCEPT ![t].pc = "find_exe", ![t].process = 0]
  /\ UNCHANGED << config_data, config_file, files, bitnet_process, procs,
                  input_text, prompts, dialog, appClosed >>

\* the branch of lines 414-528 taken on the current file system: which
\* program, if any, is launched as the server
ServerBranch ==
  IF FirstExisting(ServerExecutables) # "None"
  THEN IF Exists(GgufModel) THEN "exe"
       ELSE IF FirstExisting(ServerScripts) # "None"
            THEN FirstExisting(ServerScripts)
       ELSE IF Exists(MainPy) THEN MainPy
       ELSE "none"
  ELSE "none"

\* the output sink after the update_output calls of lines 414-528
ServerBranchOutput(out) ==
  IF FirstExisting(ServerExecutables) # "None"
  THEN IF Exists(GgufModel)
       THEN UpdateOutput(UpdateOutput(UpdateOutput(out,
              "Found BitNet server executable"), "Using model"),
              "Starting BitNet server with command")
       ELSE IF FirstExisting(ServerScripts) # "None"
       THEN UpdateOutput(UpdateOutput(UpdateOutput(UpdateOutput(out,
              "Found BitNet server executable"), "No .gguf model files found."),
              "Found server script"), "Starting BitNet with Python script")
       ELSE IF Exists(MainPy)
       THEN UpdateOutput(UpdateOutput(UpdateOutput(out,
              "Found BitNet server executable"), "No .gguf model files found."),
              "Starting BitNet with main script")
       ELSE UpdateOutput(UpdateOutput(UpdateOutput(UpdateOutput(out,
              "Found BitNet server executable"), "No .gguf model files found."),
              "Error: Could not find any server script to run BitNet."),
              "Please build BitNet manually")
  ELSE IF Exists(SetupEnvPy)
       THEN UpdateOutput(UpdateOutput(out, "No BitNet executable found."),
              "Try running: python setup_env.py")
       ELSE UpdateOutput(UpdateOutput(out,
              "Error: BitNet server executable not found and setup_env.py is missing."),
              "Make sure you've cloned the BitNet repository correctly.")

\* lines 414-531: look for a server, launch it, and take the output stream
\* of self.bitnet_process for the loop of line 531
SrvFindServer(t) ==
  /\ ~appClosed
  /\ UNCHANGED installVars
  /\ srv[t].pc = "find_exe"
  /\ UNCHANGED << config_data, config_file, files, input_text, prompts,
                  dialog, appClosed >>
  /\ IF ServerBranch = "none"
     THEN /\ UNCHANGED << bitnet_process, procs >>
          /\ IF bitnet_process = 0
             THEN Raise(t, "AttributeError",
                        "Error: 'NoneType' object has no attribute 'stdout'",
                        ServerBranchOutput(output_text))
             ELSE /\ output_text' = ServerBranchOutput(output_text)
                  /\ srv' = [srv EXCEPT ![t].pc = "server_read",
                                        ![t].reading = bitnet_process]
                  /\ UNCHANGED bitnet_status
     ELSE \/ \* subprocess.Popen fails
             /\ Raise(t, "OSError", "Error: cannot start process",
                      ServerBranchOutput(output_text))
             /\ UNCHANGED << bitnet_process, procs >>
          \/ /\ output_text' = ServerBranchOutput(output_text)
             /\ procs' = Append(procs, NewProc(t, ServerBranch))
             /\ bitnet_process' = Len(procs) + 1
             /\ srv' = [srv EXCEPT ![t].pc = "server_read",
                                   ![t].reading = Len(procs) + 1]
             /\ UNCHANGED bitnet_status

\* lines 531-536: one line of the server process's output
SrvReadLine(t) ==
  /\ ~appClosed
  /\ UNCHANGED installVars
  /\ srv[t].pc = "server_read"
  /\ procs[srv[t].reading].alive
  /\ \E marker \in BOOLEAN : ReadLine(marker)
  /\ UNCHANGED << config_data, config_file, files, bitnet_process, procs,
                  input_text, prompts, dialog, appClosed >>

\* the loop of line 531 ends: the process it reads has closed its output
SrvReadEOF(t) ==
  /\ ~appClosed
  /\ UNCHANGED installVars
  /\ srv[t].pc = "server_read"
  /\ ~procs[srv[t].reading].alive
  /\ srv' = [srv EXCEPT ![t].pc = "wait"]
  /\ UNCHANGED << config_data, config_file, files, bitnet_status,
                  bitnet_process, procs, output_text, input_text, prompts,
                  dialog, appClosed >>

\* lines 538-547: self.bitnet_process.wait() returns, and the status is set
\* from self.bitnet_process.returncode
SrvWait(t) ==
  /\ ~appClosed
  /\ UNCHANGED installVars
  /\ srv[t].pc = "wait"
  /\ ~procs[bitnet_process].alive
  /\ bitnet_status' = ExitStatus(procs[bitnet_process].rc)
  /\ output_text' =
       UpdateOutput(output_text, ExitMessage(procs[bitnet_process].rc))
  /\ srv' = [srv EXCEPT ![t] = Finished("done")]
  /\ UNCHANGED << config_data, config_file, files, bitnet_process, procs,
                  input_text, prompts, dialog, appClosed >>

\* a subprocess exits, with exit code rc
ProcExit(p, rc) ==
  /\ procs[p].alive
  /\ UNCHANGED installVars
  /\ procs' = [procs EXCEPT ![p].alive = FALSE, ![p].rc = rc]
  /\ UNCHANGED << config_data, config_file, files, bitnet_status,
                  bitnet_process, srv, output_text, input_text, prompts,
                  dialog, appClosed >>

\* ------------------------------------------------------------ send_prompt
\* the status check of send_prompt
PromptAcceptedAlsoStopped(status) == status \in { "Running", "Ready", "Stopped" }

PromptAccepted(status) == status \in { "Running", "Ready" }

\* the chunk that echoes an accepted prompt: "> " followed by the prompt
PromptEcho(prompt) == IF prompt = "hello" THEN "> hello" ELSE "> "

\* the user types into the prompt input
TypePrompt(text) ==
  /\ ~appClosed
  /\ UNCHANGED installVars
  /\ input_text' = text
  /\ UNCHANGED << config_data, config_file, files, bitnet_status,
                  bitnet_process, procs, srv, output_text, prompts, dialog,
                  appClosed >>

SendPrompt ==
  /\ ~appClosed
  /\ UNCHANGED installVars
  /\ UNCHANGED << config_data, config_file, files, bitnet_status,
                  bitnet_process, procs, srv, appClosed >>
  /\ IF ~PromptAccepted(bitnet_status)
     THEN /\ dialog' = "Server Not Running"
          /\ UNCHANGED << output_text, input_text, prompts >>
     ELSE IF Strip(input_text) = ""
     THEN /\ dialog' = "Empty Prompt"
          /\ UNCHANGED << output_text, input_text, prompts >>
     ELSE /\ Len(prompts) < MaxPrompts
          /\ output_text' = UpdateOutput(output_text, PromptEcho(Strip(input_text)))
          /\ input_text' = ""
          /\ prompts' = Append(prompts, "thinking")
          /\ UNCHANGED dialog

\* _process_prompt_thread: "Thinking...", then the response
PromptThink(i) ==
  /\ ~appClosed
  /\ UNCHANGED installVars
  /\ prompts[i] = "thinking"
  /\ output_text' = UpdateOutput(output_text, "Thinking...")
  /\ prompts' = [prompts EXCEPT ![i] = "respond"]
  /\ UNCHANGED << config_data, config_file, files, bitnet_status,
                  bitnet_process, procs, srv, input_text, dialog, appClosed >>

PromptRespond(i) ==
  /\ ~appClosed
  /\ UNCHANGED installVars
  /\ prompts[i] = "respond"
  /\ output_text' = UpdateOutput(output_text, "response")
  /\ prompts' = [prompts EXCEPT ![i] = "done"]
  /\ UNCHANGED << config_data, config_file, files, bitnet_status,
                  bitnet_process, procs, srv, input_text, dialog, appClosed >>

\* --------------------------------------------------------------- on_close
\* save_config: the record is written to CONFIG_FILE
SaveConfig(cfg) == cfg

OnClose ==
  /\ ~appClosed
  /\ UNCHANGED installVars
  /\ \E confirmed \in BOOLEAN :
       IF confirmed
       THEN /\ config_file' = SaveConfig(config_data)
            /\ appClosed' = TRUE
       ELSE UNCHANGED << config_file, appClosed >>
  /\ UNCHANGED << config_data, files, bitnet_status, bitnet_process, procs,
                  srv, output_text, input_text, prompts, dialog >>

\* -------------------------------------------- _check_prerequisites_thread
\* check_git: the path of git.exe, "None" if it is not found
CheckGit == IF Exists(GitExe) THEN GitExe ELSE "None"

\* check_conda
CheckConda ==
  IF Exists(CondaExe) THEN CondaExe
  ELSE IF Exists(BitnetCondaExe) THEN BitnetCondaExe
  ELSE "None"

\* check_visual_studio
CheckVisualStudio == IF Exists(VsDir) THEN VsDir ELSE "None"

\* _update_install_button, for the three flags
InstallButtonState(git, conda, vs) ==
  IF git /\ conda /\ vs THEN "normal" ELSE "disabled"

\* _update_status: the state it gives the install button of a tool
ToolButtonState(is_found) == IF is_found THEN "disabled" ELSE "normal"

\* lines 176-181
ChkGit(c) ==
  /\ ~appClosed
  /\ chk[c] = "git"
  /\ git_installed' = (CheckGit # "None")
  /\ config_data' = IF CheckGit # "None"
                    THEN [config_data EXCEPT !.git_path = CheckGit]
                    ELSE config_data
  /\ tool_btn' = [tool_btn EXCEPT !.git = ToolButtonState(CheckGit # "None")]
  /\ chk' = [chk EXCEPT ![c] = "conda"]
  /\ UNCHANGED << config_file, files, dialog, panelVars, call, conda_installed,
                  vs_installed, install_btn, refresh_btn, progress, inst, tools,
                  requirements_txt >>

\* lines 184-189
ChkConda(c) ==
  /\ ~appClosed
  /\ chk[c] = "conda"
  /\ conda_installed' = (CheckConda # "None")
  /\ config_data' = IF CheckConda # "None"
                    THEN [config_data EXCEPT !.conda_path = CheckConda]
                    ELSE config_data
  /\ tool_btn' =
       [tool_btn EXCEPT !.conda = ToolButtonState(CheckConda # "None")]
  /\ chk' = [chk EXCEPT ![c] = "vs"]
  /\ UNCHANGED << config_file, files, dialog, panelVars, call, git_installed,
                  vs_installed, install_btn, refresh_btn, progress, inst, tools,
                  requirements_txt >>

\* lines 192-201
ChkVs(c) ==
  /\ ~appClosed
  /\ chk[c] = "vs"
  /\ vs_installed' = (CheckVisualStudio # "None")
  /\ config_data' = IF CheckVisualStudio # "None"
                    THEN [config_data EXCEPT !.vs_path = CheckVisualStudio]
                    ELSE config_data
  /\ install_btn' = InstallButtonState(git_installed, conda_installed,
                                       vs_installed')
  /\ tool_btn' =
       [tool_btn EXCEPT !.vs = ToolButtonState(CheckVisualStudio # "None")]
  /\ chk' = [chk EXCEPT ![c] = "done"]
  /\ UNCHANGED << config_file, files, dialog, panelVars, call, git_installed,
                  conda_installed, refresh_btn, progress, inst, tools,
                  requirements_txt >>

\* check_prerequisites as the command of the Refresh Prerequisites button
\* (lines 156, 159-170): the flags are reset, the install button follows
\* them, and a new worker is started
CheckPrerequisites ==
  /\ ~appClosed
  /\ refresh_btn = "normal"
  /\ Len(chk) < MaxChecks
  /\ git_installed' = FALSE
  /\ conda_installed' = FALSE
  /\ vs_installed' = FALSE
  /\ install_btn' = InstallButtonState(FALSE, FALSE, FALSE)
  /\ chk' = Append(chk, "git")
  /\ UNCHANGED << config_data, config_file, files, dialog, panelVars, call,
                  refresh_btn, progress, inst, tool_btn, tools,
                  requirements_txt >>

\* ---------------------------------------------------------- install_bitnet
\* no exception
NoError == [type |-> "none", msg |-> << >>, details |-> << >>]

\* an _install_bitnet_thread worker: its position, the loop variable of line
\* 392, the stderr lines it has read from git clone (all_output), the values
\* it has set the progress bar to, the calls, returns and raises of its steps
\* with the external commands they ran, and the exception its handler caught
NewRun ==
  [pc |-> "start", i |-> 0, all_output |-> << >>, delivered |-> << >>,
   log |-> << >>, error |-> NoError]

\* a worker whose thread ended before the current run was started: only the
\* record of what it did is kept
Gone(worker) ==
  [pc |-> "gone", i |-> 0, all_output |-> << >>, delivered |-> << >>,
   log |-> worker.log, error |-> NoError]

Retire(workers) ==
  [w \in 1..Len(workers) |->
     IF workers[w].pc \in {"done", "failed"} THEN Gone(workers[w])
     ELSE workers[w]]

\* config[key] = value
SetKey(config, key, value) ==
  [k \in (DOMAIN config) \cup {key} |-> IF k = key THEN value ELSE config[k]]

\* the Install BitNet button's command; the install directory entry holds
\* config_data.install_dir
InstallBitnet ==
  /\ ~appClosed
  /\ install_btn = "normal"
  /\ Len(inst) < MaxRuns
  /\ \E gpu_enabled \in BOOLEAN :
       config_data' = SetKey(config_data, "use_gpu", gpu_enabled)
  /\ config_file' = SaveConfig(config_data')
  /\ install_btn' = "disabled"
  /\ refresh_btn' = "disabled"
  /\ progress' = 0
  /\ inst' = Append(Retire(inst), NewRun)
  /\ UNCHANGED << files, dialog, panelVars, call, prereqVars,
                  requirements_txt >>

\* ---------------------------------------------------- _install_bitnet_thread
\* the try/except of _install_bitnet_thread: where the worker goes when a
\* sub-step has returned (ok) or raised
AfterStepIgnoringFailure(step, ok) ==
  CASE step = "makedirs" -> "clone"
    [] step = "clone_bitnet" -> "loop"
    [] step = "setup_conda_env" -> "script"
    [] step = "create_startup_script" -> "done"

AfterStep(step, ok) ==
  IF ~ok THEN "failed"
  ELSE CASE step = "makedirs" -> "clone"
         [] step = "clone_bitnet" -> "loop"
         [] step = "setup_conda_env" -> "script"
         [] step = "create_startup_script" -> "done"

\* the value the progress bar is set to when the worker goes on after a step
\* (lines 375, 386, 401, 406)
ProgressFullAfterEveryStep(step) == 100

ProgressAfterStep(step) ==
  CASE step = "makedirs" -> 10
    [] step = "clone_bitnet" -> 40
    [] step = "setup_conda_env" -> 80
    [] step = "create_startup_script" -> 100

\* clone_progress, the callback handed to clone_bitnet
clone_progress(current, total) == 10 + ((current * 30) \div total)

\* the state the handlers give the button of a failed action (lines 271,
\* 308, 345, 422)
ButtonLeftDisabled == "disabled"

ButtonAfterFailure == "normal"

\* raise InstallationError(msg), with the output text the message embeds
InstallationError(msg, details) ==
  [type |-> "InstallationError", msg |-> msg, details |-> details]

\* an exception of another class
OtherError(type, text) == [type |-> type, msg |-> << text >>, details |-> << >>]

\* except Exception as e: raise InstallationError(f"{prefix}{str(e)}")
Reraised(prefix, e) == e

Wrapped(prefix, e) == InstallationError(<< prefix >> \o e.msg, e.details)

\* a step of worker w ends, returning or raising err (NoError if it
\* returns), after the progress bar has been set to the values of pre
\* during it and events have been added to the log
EndStep(w, step, err, pre, events) ==
  LET ok == err = NoError
      to == AfterStep(step, ok)
      values == IF to = "failed" THEN pre
                ELSE Append(pre, ProgressAfterStep(step))
  IN /\ inst' = [inst EXCEPT
            ![w].pc = to,
            ![w].i = IF to = "loop" THEN 41 ELSE 0,
            ![w].all_output = << >>,
            ![w].delivered = @ \o values,
            ![w].log = @ \o events
                         \o << << (IF ok THEN "return" ELSE "raise"), step >> >>,
            ![w].error = IF to = "failed" THEN err ELSE NoError]
     /\ progress' = IF values = << >> THEN progress ELSE values[Len(values)]
     /\ install_btn' = IF to = "failed" THEN ButtonAfterFailure
                       ELSE install_btn
     /\ refresh_btn' = IF to \in {"failed", "done"} THEN "normal"
                       ELSE refresh_btn
     /\ dialog' = CASE to = "failed" -> "Installation Error"
                    [] to = "done" -> "Installation Complete"
                    [] OTHER -> dialog

\* lines 368-375: os.makedirs(install_dir), which raises for an empty path
InstStart(w) ==
  /\ ~appClosed
  /\ inst[w].pc = "start"
  /\ IF config_data.install_dir = ""
     THEN /\ files' = files
          /\ EndStep(w, "makedirs",
                     OtherError("FileNotFoundError", "cannot find the path"),
                     << >>, << >>)
     ELSE /\ files' = files \cup {config_data.install_dir}
          /\ EndStep(w, "makedirs", NoError, << >>, << >>)
  /\ UNCHANGED << config_data, config_file, panelVars, call, prereqVars,
                  requirements_txt >>

\* ------------------------------------------------------------ clone_bitnet
\* the message prefix of the handler of lines 367-369
CloneFailedPrefix == "Failed to clone BitNet repository: "

\* what git pull prints on stderr when it fails
PullStderr == "fatal: unable to access the remote"

\* lines 285-299: git pull has ended with outcome "0", "1" (its exit code) or
\* "OSError" (it could not be started)
PullErrorWithoutStderr(outcome) ==
  CASE outcome = "0" -> NoError
    [] outcome = "1" ->
         Wrapped(CloneFailedPrefix,
           InstallationError(<< "Error pulling repository" >>, << >>))
    [] outcome = "OSError" ->
         Wrapped(CloneFailedPrefix,
           Wrapped("Error pulling repository: ",
             OtherError("FileNotFoundError", "cannot find the file")))

PullErrorEvenOnSuccess(outcome) ==
  Wrapped(CloneFailedPrefix,
    Wrapped("Error pulling repository: ",
      InstallationError(<< "Git pull failed: " >>, << PullStderr >>)))

PullError(outcome) ==
  CASE outcome = "0" -> NoError
    [] outcome = "1" ->
         Wrapped(CloneFailedPrefix,
           Wrapped("Error pulling repository: ",
             InstallationError(<< "Git pull failed: " >>, << PullStderr >>)))
    [] outcome = "OSError" ->
         Wrapped(CloneFailedPrefix,
           Wrapped("Error pulling repository: ",
             OtherError("FileNotFoundError", "cannot find the file")))

\* line 283: the install directory holds a repository
RepositoryExistsIfStartupScript == Exists(StartupBat)

RepositoryExists == Exists(GitDir)

\* clone_bitnet, lines 276-316: git pull in an existing repository, else
\* the start of git clone --recursive --progress
InstCloneBegin(w) ==
  /\ ~appClosed
  /\ inst[w].pc = "clone"
  /\ UNCHANGED << config_data, config_file, files, panelVars, call, prereqVars,
                  requirements_txt >>
  /\ IF RepositoryExists
     THEN \E outcome \in {"0", "1", "OSError"} :
            EndStep(w, "clone_bitnet", PullError(outcome), << >>,
                    << <<"call", "clone_bitnet">>, <<"git pull", outcome>> >>)
     ELSE \/ \* subprocess.Popen fails, after progress_callback(0, 100)
             EndStep(w, "clone_bitnet",
                     Wrapped(CloneFailedPrefix,
                       OtherError("FileNotFoundError", "cannot find the file")),
                     << clone_progress(0, 100) >>,
                     << <<"call", "clone_bitnet">>,
                        <<"git clone", "OSError">> >>)
          \/ /\ inst' = [inst EXCEPT
                   ![w].pc = "clone_read",
                   ![w].delivered = Append(@, clone_progress(0, 100)),
                   ![w].log = Append(@, <<"call", "clone_bitnet">>)]
             /\ progress' = clone_progress(0, 100)
             /\ UNCHANGED << install_btn, refresh_btn, dialog >>

\* the percentages git prints on its "Receiving objects" lines
Percents == { 10, 55, 100 }

\* the stderr lines of git clone: the words of the line, and the number
\* before its "%" (-1 for a line without "%")
CloneLines ==
  { [words |-> <<"Receiving", "objects", ":">>, percent |-> p] :
      p \in Percents }
    \cup { [words |-> <<"Resolving", "deltas", ":">>, percent |-> 100],
           [words |-> <<"fatal:", "could", "not", "create", "work", "tree",
                        "dir">>, percent |-> -1],
           [words |-> <<"fatal:", "Authentication", "failed">>,
            percent |-> -1] }

\* phrase in text, for sequences of words
Contains(text, phrase) ==
  \E k \in 0..(Len(text) - Len(phrase)) :
    \A j \in 1..Len(phrase) : text[k + j] = phrase[j]

\* str.lower, word by word
LowerUnchanged(text) == text

Lower(text) ==
  [k \in 1..Len(text) |->
     CASE text[k] = "Authentication" -> "authentication"
       [] text[k] = "Receiving" -> "receiving"
       [] text[k] = "Resolving" -> "resolving"
       [] OTHER -> text[k]]

\* phrase in "\n".join(all_output).lower()
OutputMentions(all_output, phrase) ==
  \E k \in 1..Len(all_output) : Contains(Lower(all_output[k].words), phrase)

\* lines 322-330: one stderr line of git clone
InstCloneLine(w, line) ==
  /\ ~appClosed
  /\ inst[w].pc = "clone_read"
  /\ Len(inst[w].all_output) < MaxCloneLines
  /\ IF Contains(line.words, <<"Receiving", "objects">>) /\ line.percent # -1
     THEN /\ inst' = [inst EXCEPT
                 ![w].all_output = Append(@, line),
                 ![w].delivered = Append(@, clone_progress(line.percent, 100))]
          /\ progress' = clone_progress(line.percent, 100)
     ELSE /\ inst' = [inst EXCEPT ![w].all_output = Append(@, line)]
          /\ UNCHANGED progress
  /\ UNCHANGED << config_data, config_file, files, dialog, panelVars, call,
                  prereqVars,
                  requirements_txt, install_btn, refresh_btn >>

\* the classification of lines 335-344
CloneError(all_output) ==
  IF OutputMentions(all_output, <<"could", "not", "create", "work", "tree">>)
  THEN InstallationError(
         << "Git clone failed: Could not create work tree. Check folder permissions." >>,
         << >>)
  ELSE IF OutputMentions(all_output, <<"authentication", "failed">>)
  THEN InstallationError(
         << "Git clone failed: Authentication failed. Check network connection." >>,
         << >>)
  ELSE InstallationError(
         << "Git clone failed with exit code 1. Details: " >>, all_output)

\* lines 333-347 and 385-386: git clone has exited
InstCloneExit(w, returncode) ==
  /\ ~appClosed
  /\ inst[w].pc = "clone_read"
  /\ IF returncode = 0
     THEN /\ files' = files \cup {GitDir, SetupEnvPy}
          /\ EndStep(w, "clone_bitnet", NoError,
                     << clone_progress(100, 100) >>,
                     << <<"git clone", "0">> >>)
     ELSE /\ files' = files
          /\ EndStep(w, "clone_bitnet",
                     Wrapped(CloneFailedPrefix, CloneError(inst[w].all_output)),
                     << >>, << <<"git clone", "1">> >>)
  /\ UNCHANGED << config_data, config_file, panelVars, call, prereqVars,
                  requirements_txt >>

\* lines 392-395: one iteration of the loop over range(41, 80)
InstLoop(w) ==
  /\ ~appClosed
  /\ inst[w].pc = "loop"
  /\ inst' = [inst EXCEPT
          ![w].pc = IF inst[w].i = 79 THEN "setup" ELSE "loop",
          ![w].i = IF inst[w].i = 79 THEN 0 ELSE @ + 1,
          ![w].delivered = Append(@, inst[w].i)]
  /\ progress' = inst[w].i
  /\ UNCHANGED << config_data, config_file, files, dialog, panelVars, call,
                  prereqVars,
                  requirements_txt, install_btn, refresh_btn >>

\* --------------------------------------------------------- setup_conda_env
\* the conda environments on disk whose name contains "bitnet-cpp"
EnvDir == "C:/miniconda3/envs/bitnet-cpp"
OtherEnvDir == "C:/miniconda3/envs/bitnet-cpp-dev"
PthFile == "C:/miniconda3/envs/bitnet-cpp/Lib/site-packages/bitnet.pth"

\* line 386: env_name in result.stdout, the output of conda env list
EnvListedNever == FALSE

EnvListed == Exists(EnvDir) \/ Exists(OtherEnvDir)

\* line 398: not os.path.exists(requirements_path)
ManifestMissingAlways == TRUE

ManifestMissing == requirements_txt = "absent"

\* lines 422-439: the walk of the install directory finds a Python file or
\* a package directory
HasPackageDirs ==
  \E f \in {SetupEnvPy, SetupWrapperPy, MainPy, "run_server.py"} : Exists(f)

\* the operations setup_conda_env performs, in order, when none of them fails
SetupPlan ==
  << "conda env list" >>
    \o (IF EnvListed THEN << >> ELSE << "conda create" >>)
    \o (IF ManifestMissing THEN << "write requirements.txt" >> ELSE << >>)
    \o << "pip install" >>
    \o (IF HasPackageDirs
        THEN << "site-packages query", "write bitnet.pth",
                "import verification" >>
        ELSE << >>)

\* what setup_conda_env raises when operation op fails: a command run with
\* check=True has exited with a non-zero code, a file could not be written,
\* or the verification command could not be started
SetupError(op) ==
  IF op \in {"write requirements.txt", "write bitnet.pth",
             "import verification"}
  THEN Wrapped("Conda environment setup failed: ",
               OtherError("OSError", "cannot open the file"))
  ELSE InstallationError(
         << "Conda environment setup failed with exit code 1" >>, << >>)

\* lines 470-473: what the outcome of the import verification raises
VerificationErrorIfNoMarker(marker) ==
  IF marker THEN NoError
  ELSE InstallationError(<< "BitNet package import verification failed" >>,
                         << >>)

VerificationError(marker) == NoError

\* lines 397-401: setup_conda_env as a whole. failed is the position in the
\* plan of the operation that fails (0: none does), marker says whether the
\* verification printed "Import successful"
InstSetupEnv(w) ==
  /\ ~appClosed
  /\ inst[w].pc = "setup"
  /\ \E failed \in 0..Len(SetupPlan), marker \in BOOLEAN :
       LET plan == SetupPlan
           last == IF failed = 0 THEN Len(plan) ELSE failed
           Succeeded(op) ==
             \E k \in 1..last : plan[k] = op /\ k # failed
           events ==
             [k \in 1..last |->
                << plan[k],
                   IF k = failed THEN "failed"
                   ELSE IF plan[k] = "import verification"
                   THEN (IF marker THEN "Import successful"
                         ELSE "Import failed")
                   ELSE "ok" >>]
           err == IF failed # 0 THEN SetupError(plan[failed])
                  ELSE IF Succeeded("import verification")
                  THEN VerificationError(marker)
                  ELSE NoError
       IN /\ files' = files
               \cup (IF Succeeded("conda create") THEN {EnvDir} ELSE {})
               \cup (IF Succeeded("write bitnet.pth") THEN {PthFile} ELSE {})
          /\ requirements_txt' =
               IF Succeeded("write requirements.txt") THEN "default manifest"
               ELSE requirements_txt
          /\ EndStep(w, "setup_conda_env", err, << >>,
                     << <<"call", "setup_conda_env">> >> \o events)
  /\ UNCHANGED << config_data, config_file, panelVars, call, prereqVars >>

\* lines 403-415: create_startup_script
InstCreateScript(w) ==
  /\ ~appClosed
  /\ inst[w].pc = "script"
  /\ \E written \in BOOLEAN :
       /\ files' = IF written THEN files \cup {StartupBat} ELSE files
       /\ EndStep(w, "create_startup_script",
                  IF written THEN NoError
                  ELSE Wrapped("Failed to create startup script: ",
                         OtherError("PermissionError", "permission denied")),
                  << >>,
                  << <<"call", "create_startup_script">>,
                     <<"write start_bitnet.bat",
                       IF written THEN "ok" ELSE "failed">> >>)
  /\ UNCHANGED << config_data, config_file, panelVars, call, prereqVars,
                  requirements_txt >>

\* ------------------------------------- install_git, install_conda, install_vs
ToolNames == { "git", "conda", "vs" }

\* installer_path of install_git, install_miniconda, install_vs_build_tools
InstallerPath(tool) ==
  CASE tool = "git" -> "temp/git_installer.exe"
    [] tool = "conda" -> "temp/miniconda_installer.exe"
    [] tool = "vs" -> "temp/vs_buildtools.exe"

\* where the installer of a tool puts it
InstalledPath(tool) ==
  CASE tool = "git" -> GitExe
    [] tool = "conda" -> BitnetCondaExe
    [] tool = "vs" -> VsDir

\* check_git, check_conda, check_visual_studio
CheckTool(tool) ==
  CASE tool = "git" -> CheckGit
    [] tool = "conda" -> CheckConda
    [] tool = "vs" -> CheckVisualStudio

\* the verification each installer makes after its installer has exited
\* with code 0 (lines 195, 226-227, 265)
VerifyInstalled(tool) ==
  CASE tool = "git" -> CheckGit # "None"
    [] tool = "conda" -> Exists(BitnetCondaExe)
    [] tool = "vs" -> CheckVisualStudio # "None"

\* a prerequisite-install worker
NewToolWorker(tool) ==
  [tool |-> tool, pc |-> "download", log |-> << >>, error |-> NoError]

\* the Install Git / Install Conda / Install VS Build Tools buttons
InstallTool(tool) ==
  /\ ~appClosed
  /\ tool_btn[tool] = "normal"
  /\ Len(tools) < MaxToolInstalls
  /\ tool_btn' = [tool_btn EXCEPT ![tool] = "disabled"]
  /\ progress' = 0
  /\ tools' = Append(tools, NewToolWorker(tool))
  /\ UNCHANGED << config_data, config_file, files, dialog, panelVars, call,
                  git_installed, conda_installed, vs_installed, install_btn,
                  refresh_btn, chk, inst, requirements_txt >>

\* the except clause of _install_git_thread, _install_conda_thread and
\* _install_vs_thread: worker t has caught err
ToolRaise(t, err, events) ==
  /\ tools' = [tools EXCEPT ![t].pc = "failed",
                            ![t].log = @ \o events,
                            ![t].error = err]
  /\ tool_btn' = [tool_btn EXCEPT ![tools[t].tool] = ButtonAfterFailure]

\* download_file (lines 137-172) and the check of its result (lines
\* 182-184): the destination directory cannot be created, the connection or
\* a read or write fails, the response has no Content-Length (the first
\* progress callback then divides by zero inside the try), or the file is
\* written
ToolDownload(t) ==
  /\ ~appClosed
  /\ tools[t].pc = "download"
  /\ UNCHANGED << config_data, config_file, dialog, panelVars, call, git_installed,
                  conda_installed, vs_installed, install_btn, refresh_btn,
                  chk, inst, requirements_txt >>
  /\ \E outcome \in {"makedirs fails", "network error", "no Content-Length",
                     "downloaded"} :
       CASE outcome = "makedirs fails" ->
              /\ ToolRaise(t, OtherError("OSError", "cannot create the directory"),
                           << <<"download", "OSError">> >>)
              /\ UNCHANGED << files, progress >>
         [] outcome \in {"network error", "no Content-Length"} ->
              /\ ToolRaise(t,
                   InstallationError(<< "Failed to download installer" >>, << >>),
                   << <<"download", "False">> >>)
              /\ UNCHANGED << files, progress >>
         [] outcome = "downloaded" ->
              /\ files' = files \cup {InstallerPath(tools[t].tool)}
              /\ progress' = 100
              /\ tools' = [tools EXCEPT ![t].pc = "install",
                                        ![t].log = Append(@, <<"download", "True">>)]
              /\ UNCHANGED tool_btn

\* the rest of install_git, install_miniconda, install_vs_build_tools: the
\* installer runs (exit code 0 or 1, or it cannot be started), it has put the
\* tool in place or not, and the result is verified; install_miniconda then
\* runs conda init
ToolRunInstaller(t) ==
  /\ ~appClosed
  /\ tools[t].pc = "install"
  /\ UNCHANGED << config_data, config_file, dialog, panelVars, call, git_installed,
                  conda_installed, vs_installed, install_btn, refresh_btn,
                  progress, chk, inst, requirements_txt >>
  /\ \E tool \in {tools[t].tool} :
     \E outcome \in {"0", "1", "OSError"}, landed \in BOOLEAN,
        init \in {"0", "1"} :
       /\ files' = IF outcome = "0" /\ landed
                   THEN files \cup {InstalledPath(tool)} ELSE files
       /\ CASE outcome = "OSError" ->
                 ToolRaise(t, OtherError("OSError", "cannot find the file"),
                           << <<"run installer", "OSError">> >>)
            [] outcome = "1" ->
                 ToolRaise(t,
                   InstallationError(
                     << "installation failed with exit code 1" >>, << >>),
                   << <<"run installer", "1">> >>)
            [] outcome = "0" /\ ~VerifyInstalled(tool)' ->
                 ToolRaise(t,
                   InstallationError(
                     << "installation could not be verified" >>, << >>),
                   << <<"run installer", "0">>, <<"verify", "not found">> >>)
            [] outcome = "0" /\ VerifyInstalled(tool)'
                 /\ tool = "conda" /\ init = "1" ->
                 ToolRaise(t,
                   InstallationError(
                     << "installation failed with exit code 1" >>, << >>),
                   << <<"run installer", "0">>, <<"verify", "found">>,
                      <<"conda init", "1">> >>)
            [] OTHER ->
                 /\ tools' = [tools EXCEPT
                       ![t].pc = "finish",
                       ![t].log = @ \o << <<"run installer", "0">>,
                                          <<"verify", "found">> >>]
                 /\ UNCHANGED tool_btn

\* lines 257-266, 294-303, 331-340: the worker checks for the tool again
\* and updates the flag, the row, the config and the install button
ToolFinish(t) ==
  /\ ~appClosed
  /\ tools[t].pc = "finish"
  /\ LET tool == tools[t].tool
         found == CheckTool(tool) # "None"
     IN /\ git_installed' = IF tool = "git" THEN found ELSE git_installed
        /\ conda_installed' = IF tool = "conda" THEN found ELSE conda_installed
        /\ vs_installed' = IF tool = "vs" THEN found ELSE vs_installed
        /\ tool_btn' = [tool_btn EXCEPT ![tool] = ToolButtonState(found)]
        /\ config_data' =
             IF ~found THEN config_data
             ELSE CASE tool = "git" ->
                         [config_data EXCEPT !.git_path = CheckGit]
                    [] tool = "conda" ->
                         [config_data EXCEPT !.conda_path = CheckConda]
                    [] tool = "vs" ->
                         [config_data EXCEPT !.vs_path = CheckVisualStudio]
        /\ install_btn' = InstallButtonState(git_installed', conda_installed',
                                             vs_installed')
        /\ tools' = [tools EXCEPT ![t].pc = "done"]
  /\ UNCHANGED << config_file, files, dialog, panelVars, call, refresh_btn,
                  progress, chk, inst, requirements_txt >>

\* ------------------------------------- setup_conda_env: the directory walk
\* the depth at which the walk of lines 422-436 stops descending
WalkDepthLimit == 2

\* the files a directory of the project may hold
DirContents ==
  { {}, {"README.md"}, {"main.py"}, {"__init__.py"} }

\* f.endswith(".py")
EndsWithPy(f) == f \in {"main.py", "__init__.py"}

\* the trees that are walked: the install directory and a chain of
\* subdirectories below it, one per level; contents[k + 1] is what the
\* directory k levels below the install directory holds
NewWalk(contents) ==
  [ fn |-> "walk", pc |-> "walk", contents |-> contents, root |-> 0,
    potential_dirs |-> << >>, pth |-> << >> ]

\* the directories os.walk hands over as dirs for the directory at depth
\* root
SubDirs(root) == IF root + 1 < Len(call.contents) THEN {root + 1} ELSE {}

\* lines 424-427: the subdirectories holding __init__.py
PackageDirs(root) ==
  IF \E d \in SubDirs(root) : "__init__.py" \in call.contents[d + 1]
  THEN << root + 1 >> ELSE << >>

\* lines 429-432: the directory itself when it holds a .py file
ScriptDir(root) ==
  IF \E f \in call.contents[root + 1] : EndsWithPy(f)
  THEN << root >> ELSE << >>

\* lines 434-436: no descent from a directory two separators below the
\* install directory
Pruned(root) == root >= WalkDepthLimit

walkFrame ==
  << config_data, config_file, files, dialog, panelVars, prereqVars,
     install_btn, refresh_btn, progress, inst, requirements_txt >>

\* one turn of the loop over os.walk(install_dir)
WalkVisit ==
  /\ call.fn = "walk" /\ call.pc = "walk"
  /\ call' = [call EXCEPT
       !.potential_dirs = @ \o PackageDirs(call.root) \o ScriptDir(call.root),
       !.root = IF ~Pruned(call.root) /\ SubDirs(call.root) # {}
                THEN @ + 1 ELSE @,
       !.pc = IF ~Pruned(call.root) /\ SubDirs(call.root) # {}
              THEN "walk" ELSE "write"]
  /\ UNCHANGED walkFrame

\* lines 439-457: the path file gets one line per collected directory, if
\* any was collected; the site-packages query or the write may fail
WalkWrite ==
  /\ call.fn = "walk" /\ call.pc = "write"
  /\ \/ call' = [call EXCEPT !.pc = "done", !.pth = call.potential_dirs]
     \/ /\ call.potential_dirs # << >>
        /\ call' = [call EXCEPT !.pc = "raised"]
  /\ UNCHANGED walkFrame

\* ----------------------------------------------------- create_startup_script
\* the marker files the generated script tests for
Markers == { "build.bat", "CMakeLists.txt", "setup.py" }

\* the if / else if chain written on lines 507-524: the marker each branch
\* tests for and the command it runs, and the else branch, which only echoes
ScriptBranchesSetupFirst ==
  << [marker |-> "setup.py", runs |-> "conda run pip install -e ."],
     [marker |-> "CMakeLists.txt", runs |-> "conda run cmake"],
     [marker |-> "build.bat", runs |-> "call build.bat"] >>

ScriptBranches ==
  << [marker |-> "build.bat", runs |-> "call build.bat"],
     [marker |-> "CMakeLists.txt", runs |-> "conda run cmake"],
     [marker |-> "setup.py", runs |-> "conda run pip install -e ."] >>

ScriptElse == "echo NOTE: Unable to determine how to build or run BitNet"

\* a call of create_startup_script, and then a run of the script it wrote in
\* a project directory holding the marker files present
NewScriptCall(present) ==
  [ fn |-> "create_startup_script", pc |-> "write", present |-> present,
    script |-> << >>, launched |-> << >>, i |-> 0, ran |-> << >>,
    result |-> "none" ]

scriptFrame ==
  << config_data, config_file, dialog, panelVars, prereqVars, install_btn,
     refresh_btn, progress, inst, requirements_txt >>

\* lines 492-530: the file is opened and written line by line, and its path
\* returned; no process is started. A failure is raised as InstallationError
CsWrite ==
  /\ call.fn = "create_startup_script" /\ call.pc = "write"
  /\ \E written \in BOOLEAN :
       IF written
       THEN /\ files' = files \cup {StartupBat}
            /\ call' = [call EXCEPT !.pc = "run", !.script = ScriptBranches,
                                    !.i = 1, !.result = StartupBat]
       ELSE /\ files' = files
            /\ call' = [call EXCEPT !.pc = "done",
                                    !.result = "InstallationError"]
  /\ UNCHANGED scriptFrame

\* the generated script at run time: one "if exist" test of the chain; the
\* branch runs its command when its marker exists, the next test follows
\* otherwise
RsIfExist ==
  /\ call.fn = "create_startup_script" /\ call.pc = "run"
  /\ call.i <= Len(call.script)
  /\ call' = IF call.script[call.i].marker \in call.present
             THEN [call EXCEPT !.pc = "done",
                               !.ran = Append(@, call.script[call.i].runs),
                               !.launched = Append(@, call.script[call.i].runs)]
             ELSE [call EXCEPT !.i = @ + 1]
  /\ UNCHANGED << files, scriptFrame >>

\* the generated script at run time: the final else branch
RsElse ==
  /\ call.fn = "create_startup_script" /\ call.pc = "run"
  /\ call.i > Len(call.script)
  /\ call' = [call EXCEPT !.pc = "done", !.ran = Append(@, ScriptElse)]
  /\ UNCHANGED << files, scriptFrame >>

\* -------------------------------------------------- load_config, save_config
\* the keys of DEFAULT_CONFIG
DefaultKeys == DOMAIN DefaultConfig

\* a key that is not in DEFAULT_CONFIG (install_bitnet stores it, line 351)
UnknownKey == "use_gpu"

\* the keys whose values are booleans; the others hold strings
BooleanKeys == { "enable_gpu", "create_shortcut", "first_run", UnknownKey }

\* two records with every key, differing from the defaults and from each
\* other on every key
FullConfigs ==
  { [ install_dir |-> "D:/bitnet", conda_path |-> CondaExe,
      git_path |-> GitExe, vs_path |-> VsDir, enable_gpu |-> FALSE,
      create_shortcut |-> FALSE, first_run |-> FALSE, use_gpu |-> TRUE ],
    [ install_dir |-> "", conda_path |-> BitnetCondaExe, git_path |-> "git",
      vs_path |-> "", enable_gpu |-> TRUE, create_shortcut |-> TRUE,
      first_run |-> TRUE, use_gpu |-> FALSE ] }

\* the config records that are saved: any set of keys
ConfigRecords ==
  { [ k \in keys |-> full[k] ] :
      keys \in SUBSET (DefaultKeys \cup {UnknownKey}), full \in FullConfigs }

\* json.dump of one value: a JSON literal
JsonLiteral(key, value) ==
  IF key \in BooleanKeys
  THEN [json |-> IF value THEN "true" ELSE "false", chars |-> ""]
  ELSE [json |-> "string", chars |-> value]

\* json.load of one literal
JsonValue(literal) ==
  CASE literal.json = "true" -> TRUE
    [] literal.json = "false" -> FALSE
    [] literal.json = "string" -> literal.chars

\* json.dump(config, f): a file holding one JSON object
JsonDump(config) ==
  [ kind |-> "object",
    members |-> [ k \in DOMAIN config |-> JsonLiteral(k, config[k]) ] ]

\* json.load(f) of a file holding a JSON object
JsonLoad(file) ==
  [ k \in DOMAIN file.members |-> JsonValue(file.members[k]) ]

\* a file cut short or overwritten with other bytes, and a file holding a
\* JSON document that is not an object
Garbage == [kind |-> "garbage", members |-> << >>]

JsonArray == [kind |-> "array", members |-> << >>]

Missing == [kind |-> "missing", members |-> << >>]

\* lines 80-83: the keys of DEFAULT_CONFIG that are missing are added
BackfillOverStored(config) ==
  [ k \in DOMAIN config \cup DefaultKeys |->
      IF k \in DefaultKeys THEN DefaultConfig[k] ELSE config[k] ]

Backfill(config) ==
  [ k \in DOMAIN config \cup DefaultKeys |->
      IF k \in DOMAIN config THEN config[k] ELSE DefaultConfig[k] ]

\* lines 88-90: what load_config saves and returns when the file is missing
\* or cannot be loaded
FallbackNothing == << >>

FallbackConfig == DefaultConfig

\* save_config(config) on a disk holding file: the file is written and True
\* returned; or open fails and False is returned; or the write fails after
\* the file was truncated and False is returned
SaveOutcomes(config, file) ==
  { [file |-> JsonDump(config), returned |-> "True"],
    [file |-> file, returned |-> "False"],
    [file |-> Garbage, returned |-> "False"] }

\* a call of save_config(config) followed by load_config(), or of
\* load_config() alone, on a disk holding file
NewConfigCall(pc, config, file) ==
  [ fn |-> "config", pc |-> pc, first |-> pc, config |-> config,
    file |-> file, before |-> file, saved |-> "none", resaved |-> "none",
    loaded |-> << >> ]

configFrame ==
  << config_data, config_file, files, dialog, panelVars, prereqVars,
     install_btn, refresh_btn, progress, inst, requirements_txt >>

\* save_config, lines 92-100
CfgSave ==
  /\ call.fn = "config" /\ call.pc = "save"
  /\ \E o \in SaveOutcomes(call.config, call.file) :
       call' = [call EXCEPT !.pc = "load", !.file = o.file,
                            !.saved = o.returned]
  /\ UNCHANGED configFrame

\* load_config, lines 76-86: the file exists and json.load and the backfill
\* go through, or an exception is logged, or the file does not exist
CfgLoad ==
  /\ call.fn = "config" /\ call.pc = "load"
  /\ call' = IF call.file.kind = "object"
             THEN [call EXCEPT !.pc = "done",
                               !.loaded = Backfill(JsonLoad(call.file))]
             ELSE [call EXCEPT !.pc = "default"]
  /\ UNCHANGED configFrame

\* load_config, lines 88-90: save_config(DEFAULT_CONFIG), whose result is
\* ignored, and return DEFAULT_CONFIG.copy()
CfgDefault ==
  /\ call.fn = "config" /\ call.pc = "default"
  /\ \E o \in SaveOutcomes(FallbackConfig, call.file) :
       call' = [call EXCEPT !.pc = "done", !.file = o.file,
                            !.resaved = o.returned,
                            !.loaded = FallbackConfig]
  /\ UNCHANGED configFrame

\* ------------------------------------------------------------- find_program
\* the candidate paths of check_git, as written in the source
GitCommonPaths ==
  << "%ProgramFiles%/Git/cmd/git.exe",
     "%ProgramFiles(x86)%/Git/cmd/git.exe",
     "%LocalAppData%/Programs/Git/cmd/git.exe" >>

\* os.path.expandvars: the placeholders of variables that are set are
\* replaced, anything else is left as it is
ExpandVars(path) ==
  CASE path = "%ProgramFiles%/Git/cmd/git.exe" -> GitExe
    [] path = "%ProgramFiles(x86)%/Git/cmd/git.exe" ->
         "C:/Program Files (x86)/Git/cmd/git.exe"
    [] path = "%LocalAppData%/Programs/Git/cmd/git.exe" ->
         "C:/Users/u/AppData/Local/Programs/Git/cmd/git.exe"
    [] OTHER -> path

\* the lines `where git.exe` may print: the matches on PATH, in order
PathMatches ==
  { << >>, << "D:/tools/git/git.exe" >>,
    << "D:/tools/git/git.exe", GitExe >>, << GitExe >> }

\* the candidate lists find_program is called with
CandidateLists ==
  { << >>, GitCommonPaths, << GitCommonPaths[2], GitCommonPaths[1] >>,
    << GitCommonPaths[3] >> }

\* a call of find_program
NewFindProgram(matches, candidates) ==
  [ fn |-> "find_program", pc |-> "where", path_matches |-> matches,
    common_paths |-> candidates, i |-> 0, result |-> "none" ]

\* the return code of `where`: 0 when it has printed a match
WhereFindsNothing(matches) == 1

WhereReturncode(matches) == IF matches = << >> THEN 1 ELSE 0

locateFrame ==
  << config_data, config_file, files, dialog, panelVars, prereqVars,
     install_btn, refresh_btn, progress, inst, requirements_txt >>

\* lines 44-54: the PATH search, whose first line is returned
FpWhere ==
  /\ call.fn = "find_program" /\ call.pc = "where"
  /\ call' = IF WhereReturncode(call.path_matches) = 0
             THEN [call EXCEPT !.pc = "done", !.result = call.path_matches[1]]
             ELSE [call EXCEPT !.pc = "candidates", !.i = 1]
  /\ UNCHANGED locateFrame

\* lines 56-63: one turn of the loop over common_paths, or its end
FpCandidate ==
  /\ call.fn = "find_program" /\ call.pc = "candidates"
  /\ call' =
       IF call.i > Len(call.common_paths)
       THEN [call EXCEPT !.pc = "done", !.result = "None"]
       ELSE IF Exists(ExpandVars(call.common_paths[call.i]))
            THEN [call EXCEPT !.pc = "done",
                              !.result = ExpandVars(call.common_paths[call.i])]
            ELSE [call EXCEPT !.i = @ + 1]
  /\ UNCHANGED locateFrame

\* ------------------------------------------------------------ download_file
\* chunk_size of download_file, with 512 KiB as the unit of length
ChunkSize == 2

\* the file download_file writes
Destination == "temp/installer.exe"

\* a call of download_file for a file of n bytes whose response announces
\* length bytes (0 without a Content-Length header), with a callback that
\* only records its arguments ("recorder") or with the progress_callback of
\* the _install_*_thread workers ("percent")
NewDownload(n, length, cb) ==
  [ fn |-> "download_file", pc |-> "makedirs", size |-> n,
    file_size |-> length, callback |-> cb, received |-> 0,
    downloaded |-> 0, calls |-> << >>, result |-> "none", cause |-> "none" ]

\* int(current / total * 100) of the workers' progress_callback
Percent(current, total) == (current * 100) \div total

\* the workers' progress_callback divides by total
CallbackRaises(cb, total) == cb = "percent" /\ total = 0

\* downloaded += len(chunk)
DownloadedForgetful(downloaded, n) == n

DownloadedAfter(downloaded, n) == downloaded + n

\* the except clause of download_file: log and return False
DownloadFails(cause) ==
  /\ call' = [call EXCEPT !.pc = "done", !.result = "False", !.cause = cause]
  /\ UNCHANGED << files, progress >>

\* a chunk of n bytes has been read and written (n = 0 before the loop):
\* the counter is advanced and progress_callback(downloaded, file_size) is
\* called, inside the try block
DownloadReports(n, current, pc) ==
  IF CallbackRaises(call.callback, call.file_size)
  THEN /\ call' = [call EXCEPT !.pc = "done", !.result = "False",
                               !.cause = "ZeroDivisionError",
                               !.received = @ + n,
                               !.downloaded = current]
       /\ UNCHANGED progress
  ELSE /\ call' = [call EXCEPT
             !.pc = pc, !.received = @ + n, !.downloaded = current,
             !.calls = Append(@, << current, call.file_size >>)]
       /\ progress' = IF call.callback = "percent"
                      THEN Percent(current, call.file_size) ELSE progress

downloadFrame ==
  << config_data, config_file, dialog, panelVars, prereqVars, install_btn,
     refresh_btn, inst, requirements_txt >>

\* line 142: os.makedirs for the destination directory, before the try
DlMakedirs ==
  /\ call.fn = "download_file" /\ call.pc = "makedirs"
  /\ \E ok \in BOOLEAN :
       call' = IF ok THEN [call EXCEPT !.pc = "urlopen"]
               ELSE [call EXCEPT !.pc = "done", !.result = "raised OSError",
                                 !.cause = "makedirs"]
  /\ UNCHANGED << files, progress, downloadFrame >>

\* lines 146-153: urlopen, the Content-Length header and the first report
DlUrlopen ==
  /\ call.fn = "download_file" /\ call.pc = "urlopen"
  /\ \/ DownloadFails("urlopen")
     \/ DownloadReports(0, 0, "open") /\ UNCHANGED files
  /\ UNCHANGED downloadFrame

\* line 155: open(destination, 'wb')
DlOpenFile ==
  /\ call.fn = "download_file" /\ call.pc = "open"
  /\ \/ DownloadFails("open")
     \/ /\ files' = files \cup {Destination}
        /\ call' = [call EXCEPT !.pc = "read"]
        /\ UNCHANGED progress
  /\ UNCHANGED downloadFrame

\* lines 156-166: one turn of the loop: a read of at most chunk_size bytes,
\* the end of the loop on an empty chunk, the write and the report
DlRead ==
  /\ call.fn = "download_file" /\ call.pc = "read"
  /\ \/ DownloadFails("read")
     \/ /\ call.received = call.size
        /\ call' = [call EXCEPT !.pc = "done", !.result = "True"]
        /\ UNCHANGED << files, progress >>
     \/ /\ call.received < call.size
        /\ DownloadFails("write")
     \/ /\ \E n \in 1..ChunkSize :
             /\ call.received + n <= call.size
             /\ DownloadReports(n, DownloadedAfter(call.downloaded, n),
                                "read")
        /\ UNCHANGED files
  /\ UNCHANGED downloadFrame

\* ---------------------------------------------------------- specification
\* every step of a _start_server_thread worker
SrvStep(t) ==
  \/ SrvBegin(t)
  \/ SrvSetupReadLine(t)
  \/ SrvSetupExit(t)
  \/ SrvFindServer(t)
  \/ SrvReadLine(t)
  \/ SrvReadEOF(t)
  \/ SrvWait(t)

NextServer ==
  \/ StartBitnetServer
  \/ \E t \in 1..Len(srv) : SrvStep(t)
  \/ \E p \in 1..Len(procs), rc \in {0, 1} : ProcExit(p, rc)
  \/ OnClose

SpecServer == InitServer /\ [][NextServer]_vars

\* the disk changes under the running application: the build outputs are
\* removed from the install directory (os.path.exists of lines 426-428 turns
\* false for every candidate)
BuildRemoved ==
  /\ ~appClosed
  /\ \E i \in 1..Len(ServerExecutables) : Exists(ServerExecutables[i])
  /\ files' = files \ { ServerExecutables[i] : i \in 1..Len(ServerExecutables) }
  /\ UNCHANGED << config_data, config_file, dialog, panelVars, installVars >>

\* the disk changes under the running application: Miniconda is removed
\* from the configured location and installed where install_miniconda puts
\* it (os.path.exists of line 284 turns false)
CondaMoved ==
  /\ ~appClosed
  /\ Exists(CondaExe)
  /\ files' = (files \ {CondaExe}) \cup {BitnetCondaExe}
  /\ UNCHANGED << config_data, config_file, dialog, panelVars, installVars >>

\* the server supervisor on a disk that changes between start sequences
NextRestart ==
  \/ NextServer
  \/ BuildRemoved
  \/ CondaMoved

SpecRestart == InitServer /\ [][NextRestart]_vars

\* the prompt exchange around one start of the server: the user presses
\* Start Server once, from Not Running
NextPrompt ==
  \/ StartBitnetServer /\ bitnet_status = "Not Running"
  \/ \E t \in 1..Len(srv) : SrvStep(t)
  \/ \E p \in 1..Len(procs), rc \in {0, 1} : ProcExit(p, rc)
  \/ \E text \in InputTexts : TypePrompt(text)
  \/ SendPrompt
  \/ \E i \in 1..Len(prompts) : PromptThink(i)
  \/ \E i \in 1..Len(prompts) : PromptRespond(i)
  \/ OnClose

SpecPrompt == InitServer /\ [][NextPrompt]_vars

\* every step of an _install_bitnet_thread worker
InstStep(w) ==
  \/ InstStart(w)
  \/ InstCloneBegin(w)
  \/ \E line \in CloneLines : InstCloneLine(w, line)
  \/ \E returncode \in {0, 1} : InstCloneExit(w, returncode)
  \/ InstLoop(w)
  \/ InstSetupEnv(w)
  \/ InstCreateScript(w)

NextInstall ==
  \/ \E c \in 1..Len(chk) : ChkGit(c)
  \/ \E c \in 1..Len(chk) : ChkConda(c)
  \/ \E c \in 1..Len(chk) : ChkVs(c)
  \/ InstallBitnet
  \/ \E w \in 1..Len(inst) : InstStep(w)

SpecInstall == InitInstall /\ [][NextInstall]_vars

\* every step of a prerequisite-install worker
ToolStep(t) ==
  \/ ToolDownload(t)
  \/ ToolRunInstaller(t)
  \/ ToolFinish(t)

\* initial file systems of the prerequisite installs: any of the tools may
\* be missing, and the install directory is an existing repository
PrereqFsInit ==
  { t \cup {InstallDir, GitDir} : t \in SUBSET {GitExe, CondaExe, VsDir} }

InitPrereq ==
  /\ config_data \in ConfigInit
  /\ config_file = config_data
  /\ files \in PrereqFsInit
  /\ requirements_txt = "absent"
  /\ InitInstallerTab
  /\ InitPanel
  /\ call = NoCall

\* the installer tab as a whole: prerequisite checks, prerequisite installs
\* and installation runs
NextPrereq ==
  \/ \E c \in 1..Len(chk) : ChkGit(c)
  \/ \E c \in 1..Len(chk) : ChkConda(c)
  \/ \E c \in 1..Len(chk) : ChkVs(c)
  \/ \E tool \in ToolNames : InstallTool(tool)
  \/ \E t \in 1..Len(tools) : ToolStep(t)
  \/ InstallBitnet
  \/ \E w \in 1..Len(inst) : InstStep(w)

SpecPrereq == InitPrereq /\ [][NextPrereq]_vars

\* the installer tab with its Refresh Prerequisites button
NextTab ==
  \/ NextPrereq
  \/ CheckPrerequisites

SpecTab == InitPrereq /\ [][NextTab]_vars

\* the calls of download_file that are followed: every file size, with and
\* without Content-Length, with either callback
InitDownload ==
  /\ config_data = DefaultConfig
  /\ config_file = config_data
  /\ files = {}
  /\ requirements_txt = "absent"
  /\ InitInstallerTab
  /\ InitPanel
  /\ call \in { NewDownload(n, length, cb) :
                  n \in 0..MaxBytes, length \in 0..MaxBytes,
                  cb \in {"recorder", "percent"} }
  /\ call.file_size \in {0, call.size}

NextDownload ==
  \/ DlMakedirs
  \/ DlUrlopen
  \/ DlOpenFile
  \/ DlRead

SpecDownload == InitDownload /\ [][NextDownload]_vars

\* the calls of find_program that are followed: every PATH result and
\* candidate list, on every file system over the candidates
InitLocate ==
  /\ config_data = DefaultConfig
  /\ config_file = config_data
  /\ files \in SUBSET { ExpandVars(GitCommonPaths[k]) : k \in 1..3 }
  /\ requirements_txt = "absent"
  /\ InitInstallerTab
  /\ InitPanel
  /\ call \in { NewFindProgram(matches, candidates) :
                  matches \in PathMatches, candidates \in CandidateLists }

NextLocate ==
  \/ FpWhere
  \/ FpCandidate

SpecLocate == InitLocate /\ [][NextLocate]_vars

\* the calls of the config functions that are followed: save_config of any
\* record and then load_config, and load_config alone, on a disk whose
\* config file is missing, damaged or holds a record
InitConfig ==
  /\ config_data = DefaultConfig
  /\ config_file = config_data
  /\ files = {}
  /\ requirements_txt = "absent"
  /\ InitInstallerTab
  /\ InitPanel
  /\ \E file \in {Missing, Garbage, JsonArray} \cup
                   { JsonDump(config) : config \in ConfigRecords } :
       \/ call = NewConfigCall("load", DefaultConfig, file)
       \/ /\ file.kind # "object" \/ DOMAIN file.members = DefaultKeys
          /\ \E config \in ConfigRecords :
               call = NewConfigCall("save", config, file)

NextConfig ==
  \/ CfgSave
  \/ CfgLoad
  \/ CfgDefault

SpecConfig == InitConfig /\ [][NextConfig]_vars

\* the calls of create_startup_script that are followed, for every set of
\* marker files the project directory may hold when the script is run
InitScript ==
  /\ config_data \in ConfigInit
  /\ config_file = config_data
  /\ files \in { {InstallDir}, {InstallDir, GitDir}, {InstallDir, StartupBat} }
  /\ requirements_txt = "absent"
  /\ InitInstallerTab
  /\ InitPanel
  /\ call \in { NewScriptCall(present) : present \in SUBSET Markers }

NextScript ==
  \/ CsWrite
  \/ RsIfExist
  \/ RsElse

SpecScript == InitScript /\ [][NextScript]_vars

\* chains of directories of every depth up to MaxDepth, each directory with
\* any of the contents
WalkTrees ==
  UNION { [1..(n + 1) -> DirContents] : n \in 0..MaxDepth }

InitWalk ==
  /\ config_data = DefaultConfig
  /\ config_file = config_data
  /\ files = {InstallDir, GitDir}
  /\ requirements_txt = "absent"
  /\ InitInstallerTab
  /\ InitPanel
  /\ call \in { NewWalk(contents) : contents \in WalkTrees }

NextWalk ==
  \/ WalkVisit
  \/ WalkWrite

SpecWalk == InitWalk /\ [][NextWalk]_vars

\* a started worker thread is scheduled, and the commands it waits for end
SpecInstallFair ==
  SpecInstall /\ WF_vars(\E w \in 1..Len(inst) : InstStep(w))

Next == NextServer

Spec == Init /\ [][Next]_vars

\* ------------------------------------------------ server supervisor claims
\* the messages the exception handler of _start_server_thread appends
ErrorMessages ==
  { "Error: Missing conda path or installation directory.",
    "Error: module 'installer_core' has no attribute 'find_conda'",
    "Error: cannot write setup_wrapper.py",
    "Error: cannot start process",
    "Error: 'NoneType' object has no attribute 'stdout'" }

\* C2: in every reachable state at most one server subprocess launched by
\* the supervisor is alive.
C2_AtMostOneLiveServer == Cardinality(LiveProcs) <= 1

\* C3: start_bitnet_server invoked in status Not Running without an install
\* directory on disk sets the status to Error.
C3_StartWithoutInstallDirIsError ==
  [][(StartBitnetServer /\ bitnet_status = "Not Running" /\ InstallDirMissing)
       => bitnet_status' = "Error"]_vars

\* the program the fallback search finds when no server executable exists
FallbackProgram ==
  IF FirstExisting(ServerScripts) # "None" THEN FirstExisting(ServerScripts)
  ELSE IF Exists(MainPy) THEN MainPy
  ELSE "none"

\* C4: when no candidate server executable exists, the start sequence
\* launches the first server script found, else main.py; it ends in Error
\* without a launch only when neither exists.
C4_FallbackWhenNoExecutable ==
  [][\A t \in 1..Len(srv) :
       (SrvFindServer(t) /\ FirstExisting(ServerExecutables) = "None"
          /\ FallbackProgram # "none")
       => \/ /\ Len(procs') = Len(procs) + 1
             /\ procs'[Len(procs')].branch = FallbackProgram
          \/ output_text' = "Error: cannot start process"]_vars

\* C5: when a subprocess launched by a start sequence has exited, that
\* sequence sets the status to Stopped for exit code 0 and to Error for any
\* other exit code.
C5_StatusFollowsExitCode ==
  [][\A t \in 1..Len(srv) :
       /\ SrvSetupExit(t)
            => bitnet_status' = ExitStatus(procs[srv[t].process].rc)
       /\ (SrvWait(t) /\ procs[srv[t].reading].owner = t)
            => bitnet_status' = ExitStatus(procs[srv[t].reading].rc)]_vars

\* C6: within one start sequence the status enters Ready only from Starting
\* (so at most once: the sequence never sets the status back to Starting).
\* Stated for runs in which a single start sequence exists.
C6_ReadyOnlyFromStarting ==
  [][(Len(srv) = 1 /\ bitnet_status' = "Ready" /\ bitnet_status # "Ready")
       => bitnet_status = "Starting..."]_vars

\* C7: an exception raised inside _start_server_thread never leaves it: the
\* step that raises ends the worker with status Error and the exception
\* message as the last chunk of the output sink.
C7_ExceptionsEndInError ==
  [][\A t \in 1..Len(srv) :
       (srv[t].pc \in {"begin", "find_exe"}
          /\ srv'[t].pc \in {"done", "escaped"})
       => /\ srv'[t].pc = "done"
          /\ bitnet_status' = "Error"
          /\ output_text' \in ErrorMessages]_vars

\* C7 witness: a worker has ended in the handler after a failed launch
C7_Witness ==
  /\ \E t \in 1..Len(srv) : srv[t].pc = "done"
  /\ procs = << >>
  /\ bitnet_status = "Error"
  /\ output_text = "Error: cannot start process"

\* C8: send_prompt in a status other than Ready or Running appends nothing
\* to the output sink, leaves the input unchanged and starts no prompt worker.
C8_PromptRejectedUnlessReady ==
  [][(bitnet_status \notin {"Ready", "Running"} /\ SendPrompt)
       => UNCHANGED << output_text, input_text, prompts >>]_vars

\* C8 witness: send_prompt has been rejected with a prompt typed in, after
\* the server has stopped
C8_Witness ==
  /\ dialog = "Server Not Running"
  /\ bitnet_status = "Stopped"
  /\ input_text = "hello"
  /\ prompts = << >>

\* C9: after the host application has been closed no server subprocess
\* launched by it is alive.
C9_NoLiveServerAfterClose == appClosed => LiveProcs = {}

\* --------------------------------------------- installation sequence claims
NonDecreasing(values) ==
  \A k \in 1..(Len(values) - 1) : values[k] <= values[k + 1]

\* C1: over a run of the installation sequence that has completed, the
\* values the progress bar was set to are non-decreasing and the last one is
\* 100, whatever "Receiving objects" percentages git clone printed.
C1_ProgressMonotoneTo100 ==
  \A w \in 1..Len(inst) :
    inst[w].pc = "done"
      => /\ NonDecreasing(inst[w].delivered)
         /\ inst[w].delivered[Len(inst[w].delivered)] = 100

\* C10: in a run, setup_conda_env is called only right after clone_bitnet
\* has returned, create_startup_script only right after setup_conda_env has
\* returned; a raise is the last event of the run, and a run with a raise
\* never sets the progress bar to 100.
C10_SubStepsOrderedAbortOnRaise ==
  \A w \in 1..Len(inst) :
    LET log == inst[w].log IN
      \A k \in 1..Len(log) :
        /\ log[k] = <<"call", "setup_conda_env">>
             => k > 1 /\ log[k - 1] = <<"return", "clone_bitnet">>
        /\ log[k] = <<"call", "create_startup_script">>
             => k > 1 /\ log[k - 1] = <<"return", "setup_conda_env">>
        /\ log[k][1] = "raise"
             => /\ k = Len(log)
                /\ \A d \in 1..Len(inst[w].delivered) :
                     inst[w].delivered[d] # 100

\* C10 witness: a run has been aborted by setup_conda_env raising after
\* clone_bitnet returned
C10_Witness ==
  \E w \in 1..Len(inst) :
    /\ inst[w].pc = "failed"
    /\ \E k \in 1..Len(inst[w].log) :
         inst[w].log[k] = <<"return", "clone_bitnet">>
    /\ inst[w].log[Len(inst[w].log)] = <<"raise", "setup_conda_env">>
    /\ \A k \in 1..Len(inst[w].log) :
         inst[w].log[k] # <<"call", "create_startup_script">>

\* whether a log holds an event
HasEvent(log, event) == \E k \in 1..Len(log) : log[k] = event

\* C13: once a call of clone_bitnet has cloned successfully, every later
\* call on the same directory runs git pull and no git clone, and returns
\* when the pull exits with code 0; the first call has returned as well.
C13_SecondCallPulls ==
  \A a \in 1..Len(inst) : \A b \in 1..Len(inst) :
    (a < b /\ HasEvent(inst[a].log, <<"git clone", "0">>))
      => /\ HasEvent(inst[a].log, <<"return", "clone_bitnet">>)
         /\ \A k \in 1..Len(inst[b].log) :
              LET log == inst[b].log IN
                /\ log[k][1] # "git clone"
                /\ log[k] = <<"call", "clone_bitnet">>
                     => k < Len(log) /\ log[k + 1][1] = "git pull"
                /\ log[k] = <<"git pull", "0">>
                     => k < Len(log) /\ log[k + 1] = <<"return", "clone_bitnet">>

\* C13 witness: the first run cloned, the second run pulled and clone_bitnet
\* returned in both
C13_Witness ==
  /\ Len(inst) = 2
  /\ HasEvent(inst[1].log, <<"git clone", "0">>)
  /\ HasEvent(inst[2].log, <<"git pull", "0">>)
  /\ HasEvent(inst[2].log, <<"return", "clone_bitnet">>)

\* the lines of git that name a failure
WorkTreeLine ==
  <<"fatal:", "could", "not", "create", "work", "tree", "dir">>

AuthLine == <<"fatal:", "Authentication", "failed">>

HasLine(all_output, words) ==
  \E k \in 1..Len(all_output) : all_output[k].words = words

\* C14: when git clone exits with a non-zero code the caller of
\* clone_bitnet gets an InstallationError: about the work tree (permissions)
\* if the buffered output has the work tree line, about authentication if
\* it has the authentication line and not the work tree line, and otherwise
\* the generic one with the whole buffered output attached.
C14_CloneFailureClassified ==
  [][\A w \in 1..Len(inst) :
       (inst[w].pc = "clone_read" /\ inst'[w].pc = "failed")
       => LET out == inst[w].all_output
              e == inst'[w].error
          IN /\ e.type = "InstallationError"
             /\ IF HasLine(out, WorkTreeLine)
                THEN /\ e.msg[Len(e.msg)] =
                          "Git clone failed: Could not create work tree. Check folder permissions."
                     /\ e.details = << >>
                ELSE IF HasLine(out, AuthLine)
                THEN /\ e.msg[Len(e.msg)] =
                          "Git clone failed: Authentication failed. Check network connection."
                     /\ e.details = << >>
                ELSE /\ e.msg[Len(e.msg)] =
                          "Git clone failed with exit code 1. Details: "
                     /\ e.details = out]_vars

\* C14 witness: a clone that printed the authentication line has failed
C14_Witness ==
  \E w \in 1..Len(inst) :
    /\ inst[w].pc = "failed"
    /\ inst[w].error =
         InstallationError(
           << CloneFailedPrefix,
              "Git clone failed: Authentication failed. Check network connection." >>,
           << >>)

\* the events a step of worker w adds to its log
NewEvents(w) ==
  SubSeq(inst'[w].log, Len(inst[w].log) + 1, Len(inst'[w].log))

\* C15: when the environment bitnet-cpp exists as setup_conda_env is
\* called, the call runs no conda create; it still runs pip install unless
\* the listing or the write of a missing requirements.txt fails, and when it
\* returns it has run pip install and, for an
\* install directory with Python sources, the site-packages query, the
\* write of bitnet.pth and the import verification.
C15_ExistingEnvNotRecreated ==
  [][\A w \in 1..Len(inst) :
       (inst[w].pc = "setup" /\ inst'[w].pc # "setup" /\ Exists(EnvDir))
       => LET new == NewEvents(w) IN
            /\ \A k \in 1..Len(new) : new[k][1] # "conda create"
            /\ (HasEvent(new, <<"conda env list", "ok">>)
                  /\ ~HasEvent(new, <<"write requirements.txt", "failed">>))
                 => \E k \in 1..Len(new) : new[k][1] = "pip install"
            /\ inst'[w].pc = "script"
                 => /\ HasEvent(new, <<"pip install", "ok">>)
                    /\ HasPackageDirs
                         => /\ HasEvent(new, <<"site-packages query", "ok">>)
                            /\ HasEvent(new, <<"write bitnet.pth", "ok">>)
                            /\ \E k \in 1..Len(new) :
                                 new[k][1] = "import verification"]_vars

\* C15 witness: setup_conda_env has returned in a run that found the
\* environment and wrote bitnet.pth without creating anything
C15_Witness ==
  \E w \in 1..Len(inst) :
    /\ inst[w].pc = "script"
    /\ HasEvent(inst[w].log, <<"write bitnet.pth", "ok">>)
    /\ \A k \in 1..Len(inst[w].log) : inst[w].log[k][1] # "conda create"

C17_FailedVerificationNotFatal ==
  [][\A w \in 1..Len(inst) :
       (inst[w].pc = "setup"
          /\ HasEvent(NewEvents(w), <<"import verification", "Import failed">>))
       => /\ inst'[w].pc = "script"
          /\ inst'[w].error = NoError
          /\ inst'[w].log[Len(inst'[w].log)] = <<"return", "setup_conda_env">>]_vars

\* C17 witness: a run has gone on to the startup script after a failed
\* import verification
C17_Witness ==
  \E w \in 1..Len(inst) :
    /\ inst[w].pc = "script"
    /\ HasEvent(inst[w].log, <<"import verification", "Import failed">>)

\* worker w is a run started after the run before it was aborted by
\* clone_bitnet, setup_conda_env or create_startup_script raising
Rerun(w) ==
  /\ 1 < w
  /\ w <= Len(inst)
  /\ LET log == inst[w - 1].log IN
       /\ log # << >>
       /\ log[Len(log)][1] = "raise"
       /\ log[Len(log)][2] # "makedirs"

\* no external command or file operation recorded in the log has failed
AllSucceeded(log) ==
  \A k \in 1..Len(log) : log[k][2] \notin {"1", "OSError", "failed"}

\* the run of worker w has completed with the progress bar at 100
Completed(w) ==
  /\ inst[w].pc = "done"
  /\ inst[w].delivered[Len(inst[w].delivered)] = 100

\* C11: a run started after an aborted run ends in the handler only if one
\* of its own commands fails; it pulls and does not clone when .git is in
\* the install directory, it does not create the environment when that
\* exists, and it eventually either completes with the progress bar at 100
\* or sees one of its commands fail.
C11_RerunAfterFailureCompletes ==
  /\ [](\A w \in 1..Len(inst) :
          (Rerun(w) /\ inst[w].pc = "failed") => ~AllSucceeded(inst[w].log))
  /\ [][\A w \in 1..Len(inst) :
          Rerun(w) =>
            /\ (inst[w].pc = "clone" /\ inst'[w].pc # "clone" /\ Exists(GitDir))
                 => /\ \E k \in 1..Len(NewEvents(w)) :
                         NewEvents(w)[k][1] = "git pull"
                    /\ inst'[w].pc # "clone_read"
            /\ (inst[w].pc = "setup" /\ inst'[w].pc # "setup" /\ Exists(EnvDir))
                 => \A k \in 1..Len(NewEvents(w)) :
                      NewEvents(w)[k][1] # "conda create"]_vars
  /\ \A w \in 2..MaxRuns :
       (Rerun(w) /\ inst[w].pc = "start")
         ~> (w <= Len(inst) /\ (Completed(w) \/ ~AllSucceeded(inst[w].log)))

\* C11 witness: a run started after an aborted one has completed, having
\* pulled and having found the environment
C11_Witness ==
  \E w \in 1..Len(inst) :
    /\ Rerun(w)
    /\ Completed(w)
    /\ HasEvent(inst[w].log, <<"git pull", "0">>)
    /\ \A k \in 1..Len(inst[w].log) : inst[w].log[k][1] # "conda create"

\* ------------------------------------------------ prerequisite install claims
\* worker t has logged event e
HasToolEvent(t, e) == \E k \in 1..Len(tools[t].log) : tools[t].log[k] = e

\* worker t fails in this step
ToolFails(t) == tools[t].pc # "failed" /\ tools'[t].pc = "failed"

\* installation run w fails in this step
RunFails(w) == inst[w].pc # "failed" /\ inst'[w].pc = "failed"

\* C12: whenever an action started from a button fails (Install Git, Install
\* Conda, Install VS Build Tools, Install BitNet), the step that reports the
\* failure leaves the button that started it enabled
C12_FailedActionReenablesButton ==
  [][ /\ \A t \in 1..Len(tools) :
           ToolFails(t) => tool_btn'[tools[t].tool] = "normal"
      /\ \A w \in 1..Len(inst) :
           RunFails(w) => install_btn' = "normal" ]_vars

\* a prerequisite install and an installation run have both failed, and both
\* buttons can be pressed again
C12_Witness ==
  /\ \E t \in 1..Len(tools) :
       tools[t].pc = "failed" /\ tool_btn[tools[t].tool] = "normal"
  /\ \E w \in 1..Len(inst) : inst[w].pc = "failed"
  /\ install_btn = "normal"

\* the download of worker t has failed
DownloadFailed(t) ==
  HasToolEvent(t, <<"download", "False">>)
    \/ HasToolEvent(t, <<"download", "OSError">>)

\* C18: when the download of the installer binary fails, the installer
\* raises InstallationError, the binary is never run and nothing is verified
C18_FailedDownloadStopsInstaller ==
  \A t \in 1..Len(tools) :
    DownloadFailed(t) =>
      /\ tools[t].error.type = "InstallationError"
      /\ \A k \in 1..Len(tools[t].log) :
           tools[t].log[k][1] \notin {"run installer", "verify"}

\* C19: when the installer process has exited with code 0, the installer
\* returns success exactly if the detection of its tool (check_git,
\* check_conda, check_visual_studio) now finds the tool, and otherwise
\* raises "could not be verified"
C19_SuccessIffDetected ==
  [][ \A t \in 1..Len(tools) :
        \A tool \in {tools[t].tool} :
          (tools[t].pc = "install" /\ tools'[t].pc # "install"
             /\ tools'[t].log[Len(tools[t].log) + 1] = <<"run installer", "0">>)
          => /\ (tools'[t].pc = "finish") <=> (CheckTool(tool) # "None")'
             /\ tools'[t].pc = "failed" =>
                  tools'[t].error =
                    InstallationError(
                      << "installation could not be verified" >>, << >>)
    ]_vars

\* C20: whatever happens when the installer binary is run, the only
\* exception that leaves the installer is InstallationError
C20_OnlyInstallationErrorEscapes ==
  [][ \A t \in 1..Len(tools) :
        (tools[t].pc = "install" /\ ToolFails(t))
          => tools'[t].error.type = "InstallationError" ]_vars

\* ----------------------------------------------------------- download claims
\* the first components of the calls are strictly increasing
StrictlyIncreasing(calls) ==
  \A k \in 1..(Len(calls) - 1) : calls[k][1] < calls[k + 1][1]

\* C21: when download_file has returned True for a file of N bytes, the
\* first components of its progress calls are strictly increasing and the
\* last one is N; without a Content-Length the second component of every
\* call is 0
C21_ProgressCallsIncreaseToN ==
  /\ call.result = "True" =>
       /\ StrictlyIncreasing(call.calls)
       /\ call.calls # << >>
       /\ call.calls[Len(call.calls)][1] = call.size
  /\ call.file_size = 0 =>
       \A k \in 1..Len(call.calls) : call.calls[k][2] = 0

\* a file of more than one chunk has been downloaded in three reads
C21_Witness ==
  /\ call.result = "True"
  /\ call.size > ChunkSize
  /\ Len(call.calls) >= 4

\* C22: download_file never lets an exception escape, whatever fails
C22_DownloadNeverRaises == call.result \in {"none", "True", "False"}

\* C23: with no Content-Length and the workers' progress callback, the
\* callback never fails, so the download fails only if the network or the
\* disk does
C23_UnknownTotalIsIndeterminate ==
  (call.callback = "percent" /\ call.file_size = 0)
    => call.cause # "ZeroDivisionError"

\* ------------------------------------------------------- find_program claims
\* candidate k of the call, expanded, exists on disk
CandidateExists(k) == ExpandVars(call.common_paths[k]) \in files

\* C24: find_program returns the PATH match when there is one, even if
\* candidates exist; otherwise the first candidate, in list order and after
\* expansion, that exists on disk; otherwise None
C24_PathMatchThenFirstCandidate ==
  (call.fn = "find_program" /\ call.pc = "done") =>
    IF call.path_matches # << >>
    THEN call.result = call.path_matches[1]
    ELSE IF \E k \in 1..Len(call.common_paths) : CandidateExists(k)
         THEN \E k \in 1..Len(call.common_paths) :
                /\ CandidateExists(k)
                /\ \A j \in 1..(k - 1) : ~CandidateExists(j)
                /\ call.result = ExpandVars(call.common_paths[k])
         ELSE call.result = "None"

\* the PATH match has been returned although a candidate exists, and it is
\* not that candidate
C24_Witness ==
  /\ call.fn = "find_program" /\ call.pc = "done"
  /\ call.path_matches # << >>
  /\ call.result = call.path_matches[1]
  /\ \E k \in 1..Len(call.common_paths) :
       CandidateExists(k) /\ call.result # ExpandVars(call.common_paths[k])

\* ------------------------------------------------- installation progress claims
\* the values of the end-to-end scenario for the clone percentages 10, 55, 100
ScenarioValue(percent) ==
  CASE percent = 10 -> 11
    [] percent = 55 -> 27
    [] percent = 100 -> 40

\* the last element of a sequence
Last(seq) == seq[Len(seq)]

\* C25: the value delivered for a "Receiving objects" line lies in 10..40,
\* and for the percentages 10, 55 and 100 it is 11, 27 and 40
C25_ClonePercentRescaled ==
  [][ \A w \in 1..Len(inst) :
        ( /\ inst[w].pc = "clone_read"
          /\ Len(inst'[w].all_output) = Len(inst[w].all_output) + 1
          /\ Len(inst'[w].delivered) = Len(inst[w].delivered) + 1 )
        => /\ Last(inst'[w].delivered) \in 10..40
           /\ Last(inst'[w].delivered)
                = ScenarioValue(Last(inst'[w].all_output).percent)
    ]_vars

\* C26: a run has set the progress bar to 100 only if its
\* create_startup_script has returned, after clone_bitnet and
\* setup_conda_env have, and 100 is the last value it delivers
C26_FullProgressOnlyAfterScript ==
  \A w \in 1..Len(inst) :
    \A k \in 1..Len(inst[w].delivered) :
      inst[w].delivered[k] = 100
        => /\ HasEvent(inst[w].log, <<"return", "clone_bitnet">>)
           /\ HasEvent(inst[w].log, <<"return", "setup_conda_env">>)
           /\ HasEvent(inst[w].log, <<"return", "create_startup_script">>)
           /\ k = Len(inst[w].delivered)

\* a run has delivered 100
C26_Witness ==
  \E w \in 1..Len(inst) :
    /\ inst[w].delivered # << >>
    /\ Last(inst[w].delivered) = 100
    /\ inst[w].pc = "done"

\* --------------------------------------------------------------- config claims
\* C27: when save_config(c) has returned True, the load_config that follows
\* returns a record with the keys of c and of the defaults, equal to c on
\* every key of c, unknown keys included, and to the defaults elsewhere
C27_ConfigRoundTrip ==
  ( /\ call.fn = "config" /\ call.first = "save" /\ call.pc = "done"
    /\ call.saved = "True" )
  => /\ DOMAIN call.loaded = DOMAIN call.config \cup DefaultKeys
     /\ \A k \in DOMAIN call.config : call.loaded[k] = call.config[k]
     /\ \A k \in DefaultKeys \ DOMAIN call.config :
          call.loaded[k] = DefaultConfig[k]

\* a record with an unknown key and without some default keys has made the
\* round trip
C27_Witness ==
  /\ call.fn = "config" /\ call.first = "save" /\ call.pc = "done"
  /\ call.saved = "True"
  /\ UnknownKey \in DOMAIN call.config
  /\ "install_dir" \in DOMAIN call.config
  /\ call.config["install_dir"] # DefaultConfig["install_dir"]
  /\ DefaultKeys \ DOMAIN call.config # {}

\* the file load_config started from cannot be loaded as a config record
Corrupted == call.before.kind \in {"garbage", "array"}

\* C28: load_config on a corrupted file returns the defaults (it has no way
\* to raise), after a save of the defaults that leaves them on disk unless
\* the write itself fails
C28_CorruptedFallsBackToDefaults ==
  ( /\ call.fn = "config" /\ call.first = "load" /\ call.pc = "done"
    /\ Corrupted )
  => /\ call.loaded = DefaultConfig
     /\ call.resaved \in {"True", "False"}
     /\ call.resaved = "True" => call.file = JsonDump(DefaultConfig)

\* a corrupted file has been replaced by the defaults
C28_Witness ==
  /\ call.fn = "config" /\ call.first = "load" /\ call.pc = "done"
  /\ Corrupted
  /\ call.resaved = "True"
  /\ call.file = JsonDump(DefaultConfig)

\* no prerequisite check, prerequisite install or installation run is
\* under way
NoStepInProgress ==
  /\ \A c \in 1..Len(chk) : chk[c] = "done"
  /\ \A t \in 1..Len(tools) : tools[t].pc \in {"done", "failed"}
  /\ \A w \in 1..Len(inst) : inst[w].pc \notin {"start", "clone",
       "clone_read", "loop", "setup", "script"}

\* C29: the paths recorded by a check or an install are written to disk, so
\* that the config on disk equals the config in memory whenever no step is
\* in progress
C29_ConfigOnDiskFollowsMemory ==
  NoStepInProgress => config_file = config_data

Range(seq) == { seq[k] : k \in 1..Len(seq) }

\* C31: the path file lists exactly the subdirectories one or two levels
\* below the install directory that hold __init__.py, and the install
\* directory itself exactly if it holds a .py file
C31_PathFileDirectories ==
  (call.fn = "walk" /\ call.pc = "done") =>
    Range(call.pth) =
      { d \in 1..2 : d < Len(call.contents)
                       /\ "__init__.py" \in call.contents[d + 1] }
      \cup (IF \E f \in call.contents[1] : EndsWithPy(f) THEN {0} ELSE {})

\* --------------------------------------------------- installer tab claims
\* the installation runs that are under way
RunningRuns ==
  { w \in 1..Len(inst) :
      inst[w].pc \in {"start", "clone", "clone_read", "loop", "setup",
                      "script"} }

\* C32: a check pass records results only while it is the most recently
\* started pass: after a refresh has reset the flags, no older pass writes
\* a result
C32_ResultsFromLatestPass ==
  [][ \A c \in 1..Len(chk) : chk'[c] # chk[c] => c = Len(chk) ]_vars

\* C33: while an installation run is under way the Install BitNet button
\* is disabled, and no second run is under way
C33_OneRunAtATime ==
  RunningRuns # {} =>
    /\ install_btn = "disabled"
    /\ Cardinality(RunningRuns) = 1

\* C34: the Install BitNet button is enabled only while all three flags
\* are set
C34_EnabledOnlyWithAllFlags ==
  install_btn = "normal" =>
    (git_installed /\ conda_installed /\ vs_installed)

\* the server subprocesses launched by start sequence t
ServersOf(t, launched) ==
  { p \in 1..Len(launched) :
      launched[p].owner = t /\ launched[p].branch # "setup" }

\* C35: a start sequence that has launched no server subprocess ends in
\* Error, whatever process handle and exit code an earlier start sequence
\* has left behind
C35_NoLaunchEndsInError ==
  [][ \A t \in 1..Len(srv) :
        (srv[t].pc # "done" /\ srv'[t].pc = "done" /\ ServersOf(t, procs') = {})
          => bitnet_status' = "Error" ]_vars

\* C36: a start sequence that finds the configured conda path missing on
\* disk stores the path check_conda locates and goes on with it; it ends in
\* Error only if conda cannot be located
C36_MissingCondaIsRelocated ==
  [][ \A t \in 1..Len(srv) :
        (SrvBegin(t) /\ config_data.conda_path # ""
           /\ config_data.install_dir # "" /\ ~Exists(config_data.conda_path))
          => IF CheckConda # "None"
             THEN /\ config_data'.conda_path = CheckConda
                  /\ srv'[t].pc \notin {"done", "escaped"}
             ELSE bitnet_status' = "Error" ]_vars

\* C37: setup_conda_env skips conda create exactly when an environment
\* named bitnet-cpp exists; when none does, conda create runs before pip
\* install
C37_CreateSkippedIffExactName ==
  [][ \A w \in 1..Len(inst) :
        (inst[w].pc = "setup" /\ inst'[w].pc # "setup"
           /\ HasEvent(NewEvents(w), <<"conda env list", "ok">>))
          => LET new == NewEvents(w) IN
               /\ Exists(EnvDir)
                    <=> \A k \in 1..Len(new) : new[k][1] # "conda create"
               /\ ~Exists(EnvDir)
                    => \A k \in 1..Len(new) :
                         new[k][1] = "pip install"
                           => \E j \in 1..(k - 1) :
                                new[j] = <<"conda create", "ok">> ]_vars

\* the positions of a run inside clone_bitnet, setup_conda_env and
\* create_startup_script
LibrarySteps == { "clone", "clone_read", "setup", "script" }

\* the outcomes of an operation that make it fail
FailureOutcomes == { "failed", "OSError", "1" }

\* C38: whatever fails inside clone_bitnet, setup_conda_env or
\* create_startup_script, the exception that leaves the function is an
\* InstallationError, and a call in which an operation failed raises
\* instead of returning
C38_OnlyInstallationErrorLeaves ==
  [][ \A w \in 1..Len(inst) :
        inst[w].pc \in LibrarySteps
          => LET new == NewEvents(w) IN
               /\ inst'[w].pc = "failed"
                    => inst'[w].error.type = "InstallationError"
               /\ (\E k \in 1..Len(new) : new[k][2] \in FailureOutcomes)
                    => /\ inst'[w].pc = "failed"
                       /\ new[Len(new)][1] = "raise" ]_vars

\* C38 witness: a run has failed on the write of bitnet.pth, an OSError
\* inside setup_conda_env, and holds an InstallationError
C38_Witness ==
  \E w \in 1..Len(inst) :
    /\ inst[w].pc = "failed"
    /\ HasEvent(inst[w].log, <<"write bitnet.pth", "failed">>)
    /\ inst[w].error.type = "InstallationError"
    /\ inst[w].error.msg =
         << "Conda environment setup failed: ", "cannot open the file" >>

\* C39: when .git is in the install directory and git pull exits with a
\* non-zero code, clone_bitnet raises an InstallationError whose message
\* ends with "Git pull failed: " followed by the stderr text of the pull,
\* and the call runs no git clone
C39_PullFailureCarriesStderr ==
  [][ \A w \in 1..Len(inst) :
        (inst[w].pc = "clone" /\ RepositoryExists
           /\ HasEvent(NewEvents(w), <<"git pull", "1">>))
          => /\ inst'[w].pc = "failed"
             /\ inst'[w].error.type = "InstallationError"
             /\ inst'[w].error.msg[Len(inst'[w].error.msg)] = "Git pull failed: "
             /\ inst'[w].error.details = << PullStderr >>
             /\ \A k \in 1..Len(NewEvents(w)) :
                  NewEvents(w)[k][1] # "git clone" ]_vars

\* C39 witness: a run on an existing repository has stopped on a failed
\* pull, and its error carries the stderr text
C39_Witness ==
  \E w \in 1..Len(inst) :
    /\ inst[w].pc = "failed"
    /\ HasEvent(inst[w].log, <<"git pull", "1">>)
    /\ inst[w].error.details = << PullStderr >>
    /\ \A k \in 1..Len(inst[w].log) : inst[w].log[k][1] # "git clone"

====
